---- MODULE Spec2Model ----
(***************************************************************************)
(* Model of the olakaisdk supervisor (monitor/decorator.py) and of its     *)
(* batch queue manager (queueManagerPackage/queue_manager.py).             *)
(*                                                                         *)
(* Reading of monitor/decorator.py: the file carries most of its hunks     *)
(* twice in a row (a statement and, right after it, the same statement      *)
(* again, sometimes cut in the middle of a call), and does not parse as it *)
(* stands.  The model reads every doubled hunk once.  Nothing else is      *)
(* repaired: the control flow, the handlers and the locals are the file's. *)
(*                                                                         *)
(* Five specifications share the variables:                                *)
(*   Spec          one wrapped call after the other (sync or async         *)
(*                 wrapper), with the background tasks it dispatches;      *)
(*   QueueSpec     the queue manager: enqueue, timers, drain, retry sweep, *)
(*                 persistence;                                            *)
(*   RetrySpec     one call of send_with_retry (client/api.py);            *)
(*   StorageSpec   one storage adapter (queueManagerPackage/storage);      *)
(*   SanitizeSpec  to_json_value and sanitize_data (shared/utils.py).      *)
(***************************************************************************)
EXTENDS Integers, Sequences, FiniteSets, TLC

(***************************************************************************)
(* Bounds of the model.                                                    *)
(***************************************************************************)
MaxCalls == 1
MaxMiddlewares == 2
MaxPayloads == 3
MaxFailures == 3
MaxRetries == 6
MaxDataLen == 2
MaxPatterns == 2
MaxFlushes == 1
MaxClears == 1
GeneralPayloads == 2

\* SDKConfig.maxStorageSize the queue model is run with.
MaxStorageSize == 20

\* A maxStorageSize that holds three batches of one payload, not four.
LargeStorageSize == 29

\* json.dumps lengths, in units: "[]", a batch without its payloads, a payload.
BracketsLen == 2
BatchLen == 4
PayloadLen == 3

(***************************************************************************)
(* Values.                                                                 *)
(***************************************************************************)
Unbound == "unbound"
None == "None"
Values == {"v1", "v2"}
Errors == {"ValueError", "KeyError"}
Priorities == {"low", "normal", "high"}
Sensitivities == {<<>>, <<"pii">>}

NoDecision == [allowed |-> FALSE, detectedSensitivity |-> <<>>,
               isAllowedPersona |-> FALSE, received |-> FALSE]
NoOutcome == [type |-> "pending", val |-> None]
NoDetails == [detectedSensitivity |-> <<>>, isAllowedPersona |-> FALSE, set |-> FALSE]

VARIABLES
    middlewares,     \* middleware.py _global_middlewares
    wrapper,         \* which wrapper wrap() returned: "sync" or "async"
    loop_running,    \* whether asyncio.get_running_loop() succeeds in the caller
    options,         \* MonitorOptions of the decorated function
    pc,              \* position of the wrapped call
    is_allowed,      \* local is_allowed (the control decision)
    processed_args,  \* local processed_args; args are the sequence of transforms applied
    result,          \* local result
    function_error,  \* local function_error
    f_calls,         \* number of invocations of the user function in this call
    f_args,          \* the args the user function was invoked with
    outcome,         \* what the wrapper gave its caller
    raised_details,  \* details carried by the OlakaiBlockedError raised
    dispatched,      \* fire_and_forget submissions of this call, in order
    background,      \* submissions not yet run by the executor
    monitored,       \* payloads handed to send_to_api for this call
    calls,           \* wrapped calls started so far
    control,         \* how the control call of this call ended
    f_outcome        \* how the user function ended in this call

wvars == <<middlewares, wrapper, loop_running, options, pc, is_allowed,
           processed_args, result, function_error, f_calls, f_args, outcome,
           raised_details, dispatched, background, monitored, calls,
           control, f_outcome>>

VARIABLES
    config,               \* SDKConfig of the client
    workload,             \* what the program asks of the queue manager
    batch_queue,          \* QueueManager.batch_queue
    batch_timer,          \* QueueManager.batch_timer
    clear_retries_timer,  \* QueueManager.clear_retries_timer
    older_timer,          \* which of the two timers was created first
    storage_instance,     \* storage/index.py _storage_instance: the adapter in use
    storage,              \* the blob under the storage key
    clear_raised,         \* a clear_queue call ended with an exception
    acts,                 \* the threads of control inside the queue manager
    next_id,              \* stamp of the next BatchRequest created
    enqueued,             \* number of payloads handed to add_to_queue
    priority_of,          \* the priority each payload was enqueued with
    delivered,            \* payloads the server accepted
    failed_sends,         \* per payload, the sends that failed with it in the body
    swept,                \* payloads removed by clear_retries_queue
    evicted,              \* payloads removed by _persist_queue
    cleared,              \* payloads removed by clear
    cancelled,            \* payloads held by a drain that was cancelled
    failures,             \* number of failed sends so far
    flushes,              \* number of flush_queue calls so far
    clears,               \* number of clear_queue calls so far
    sent_order,           \* the payloads in the order they were first sent
    first_drain_enq,      \* number of payloads in the queue when the first drain sorted it
    raised_in             \* the thread whose send raised RetryExhaustedError in the last step

qvars == <<config, storage_instance, clear_raised, workload, batch_queue, batch_timer, clear_retries_timer, older_timer, storage,
           acts, next_id, enqueued, priority_of, delivered, failed_sends, swept,
           evicted, cleared, cancelled, failures, flushes, clears,
           sent_order, first_drain_enq, raised_in>>

(***************************************************************************)
(* The parts of the SDK checked on their own: one call of the retry        *)
(* wrapper, a storage adapter, and the sanitizer.                          *)
(***************************************************************************)
VARIABLES
    retry_call,           \* a call of send_with_retry: its arguments and where it stands
    adapter_store,        \* a StorageAdapter: its kind, what it holds, its last operation
    sanitized             \* a call of to_json_value on a leaf: its arguments and its result

xvars == <<retry_call, adapter_store, sanitized>>

vars == <<wvars, qvars, xvars>>

(***************************************************************************)
(* shared/types.py                                                         *)
(***************************************************************************)
\* capture is TRUE for a callable and FALSE for None.
MonitorOptionsSet ==
    [capture : BOOLEAN, send_on_function_error : BOOLEAN, priority : Priorities]

Middleware(n, b, a, e) ==
    [name |-> n, before_call |-> b, after_call |-> a, on_error |-> e]

\* The middlewares the model registers: one per hook behaviour.
MiddlewareSet ==
    {Middleware("m1", "ok", "none", "none"),
     Middleware("m2", "ok", "replace", "none"),
     Middleware("m1", "MiddlewareError", "none", "ok"),
     Middleware("m2", "Exception", "none", "none"),
     Middleware("m1", "none", "raise", "raise"),
     Middleware("m2", "none", "replace", "ok")}

ControlReplies ==
    [kind : {"response"}, allowed : BOOLEAN,
     detectedSensitivity : Sensitivities, isAllowedPersona : BOOLEAN]
    \cup
    {[kind |-> "error", allowed |-> FALSE,
      detectedSensitivity |-> <<>>, isAllowedPersona |-> FALSE]}

FOutcomes == [type : {"return"}, val : Values] \cup [type : {"raise"}, val : Errors]

NoReply ==
    [kind |-> "none", allowed |-> FALSE,
     detectedSensitivity |-> <<>>, isAllowedPersona |-> FALSE]

NoPayload ==
    [kind |-> "none", prompt |-> None, response |-> None, blocked |-> FALSE,
     errorMessage |-> None, sensitivity |-> <<>>]

DefaultBlocked ==
    [allowed |-> FALSE, detectedSensitivity |-> <<>>,
     isAllowedPersona |-> FALSE, received |-> FALSE]

(***************************************************************************)
(* monitor/processor.py should_allow_call: the control response, or        *)
(* ControlServiceError for any failure of the control call.                *)
(***************************************************************************)
should_allow_call(reply) ==
    IF reply.kind = "error"
    THEN [raised |-> "ControlServiceError", response |-> NoDecision]
    ELSE [raised |-> "none",
          response |-> [allowed |-> reply.allowed,
                        detectedSensitivity |-> reply.detectedSensitivity,
                        isAllowedPersona |-> reply.isAllowedPersona,
                        received |-> TRUE]]

\* Mutant of sync_control: a failed control call lets the call through.
sync_control_fail_open(loop, reply) ==
    LET r == should_allow_call(reply) IN
    IF r.raised = "none"
    THEN [raised |-> "none", is_allowed |-> r.response]
    ELSE [raised |-> "none",
          is_allowed |-> [allowed |-> TRUE, detectedSensitivity |-> <<>>,
                          isAllowedPersona |-> FALSE, received |-> FALSE]]

(***************************************************************************)
(* sync_wrapped_f, the control block.  With a running loop the call is     *)
(* made inside the try (future.result()), so the except clauses catch its  *)
(* failure and default to blocking.  Without one, get_running_loop raises  *)
(* RuntimeError and the call is made inside that except clause: its        *)
(* failure leaves the try statement uncaught.                              *)
(***************************************************************************)
sync_control(loop, reply) ==
    LET r == should_allow_call(reply) IN
    IF loop
    THEN IF r.raised = "none"
         THEN [raised |-> "none", is_allowed |-> r.response]
         ELSE [raised |-> "none", is_allowed |-> DefaultBlocked]
    ELSE [raised |-> r.raised, is_allowed |-> r.response]

(***************************************************************************)
(* async_wrapped_f, the control call: awaited inside the outer try.        *)
(***************************************************************************)
async_control(reply) ==
    LET r == should_allow_call(reply) IN
    [raised |-> r.raised, is_allowed |-> r.response]

(***************************************************************************)
(* async_wrapped_f, the outer "except Exception" clause: it reads the      *)
(* local function_error, which is bound only once the execution block has  *)
(* been entered.                                                           *)
(***************************************************************************)
async_outer_handler(ferr) ==
    IF ferr = Unbound THEN [do |-> "raise", val |-> "UnboundLocalError"]
    ELSE IF ferr # None THEN [do |-> "raise", val |-> ferr]
    ELSE [do |-> "call_f", val |-> None]

(***************************************************************************)
(* The MonitorPayload of a blocked call and its dispatch.                  *)
(***************************************************************************)
blocked_payload(d) ==
    [kind |-> "blocked", prompt |-> "Args",
     response |-> "Function execution blocked by Olakai",
     blocked |-> TRUE, errorMessage |-> None,
     sensitivity |-> IF d.detectedSensitivity # <<>>
                     THEN d.detectedSensitivity ELSE <<>>]

Task(t, p, prio, res, err, a, d) ==
    [task |-> t, payload |-> p, priority |-> prio, result |-> res,
     error |-> err, args |-> a, is_allowed |-> d]

\* Mutant of blocked_dispatch: the blocked payload is submitted twice.
blocked_dispatch_twice(d, a) ==
    <<Task("send_to_api", blocked_payload(d), "high", None, None, a, d),
      Task("send_to_api", blocked_payload(d), "high", None, None, a, d)>>

blocked_dispatch(d, a) ==
    <<Task("send_to_api", blocked_payload(d), "high", None, None, a, d)>>

(***************************************************************************)
(* apply_before_middleware: every before_call hook is handed the args the  *)
(* function received; the result of the last hook is returned; an          *)
(* exception of a hook leaves the function.                                *)
(***************************************************************************)
RECURSIVE before_from(_, _, _, _)
before_from(mws, i, a, cur) ==
    IF i > Len(mws) THEN [raised |-> "none", args |-> cur]
    ELSE IF mws[i].before_call = "none" THEN before_from(mws, i + 1, a, cur)
    ELSE IF mws[i].before_call = "ok"
         THEN before_from(mws, i + 1, a, Append(a, mws[i].name))
    ELSE [raised |-> mws[i].before_call, args |-> cur]

apply_before_middleware(mws, a) == before_from(mws, 1, a, a)

\* Mutant of sync_execute: the wrapper returns what the monitoring made of the
\* result instead of the result.
sync_execute_monitored_result(fo, opts, a, d) ==
    [outcome |-> [type |-> "return", val |-> "replaced"],
     result |-> "replaced",
     dispatch |-> <<Task("handle_success_monitoring", NoPayload,
                         opts.priority, fo.val, None, a, d)>>]

(***************************************************************************)
(* sync_wrapped_f, the execution block: try / except Exception / finally.  *)
(* The finally clause reads the local result, bound only by a return of f. *)
(***************************************************************************)
sync_execute(fo, opts, a, d) ==
    IF fo.type = "return"
    THEN [outcome |-> [type |-> "return", val |-> fo.val],
          result |-> fo.val,
          dispatch |-> <<Task("handle_success_monitoring", NoPayload,
                              opts.priority, fo.val, None, a, d)>>]
    ELSE [outcome |-> [type |-> "raise", val |-> "UnboundLocalError"],
          result |-> Unbound,
          dispatch |-> IF opts.send_on_function_error
                       THEN <<Task("handle_error_monitoring", NoPayload,
                                   "high", None, fo.val, a, d)>>
                       ELSE <<>>]

(***************************************************************************)
(* async_wrapped_f, the execution block and what follows it.               *)
(***************************************************************************)
async_execute(fo, opts, a, d) ==
    IF fo.type = "return"
    THEN [outcome |-> [type |-> "return", val |-> fo.val],
          result |-> fo.val, function_error |-> None,
          dispatch |-> <<Task("handle_success_monitoring", NoPayload,
                              opts.priority, fo.val, None, a, d)>>]
    ELSE LET h == async_outer_handler(fo.val) IN
         [outcome |-> [type |-> h.do, val |-> h.val],
          result |-> None, function_error |-> fo.val,
          dispatch |-> <<Task("handle_error_monitoring", NoPayload,
                              "high", None, fo.val, a, d)>>]

(***************************************************************************)
(* handle_success_monitoring: after_call hooks on its own copy of result,  *)
(* then the payload.                                                       *)
(***************************************************************************)
RECURSIVE after_from(_, _, _)
after_from(mws, i, res) ==
    IF i > Len(mws) THEN res
    ELSE IF mws[i].after_call = "replace" THEN after_from(mws, i + 1, "replaced")
    ELSE after_from(mws, i + 1, res)

success_payload(mws, t) ==
    [kind |-> "success", prompt |-> "input",
     response |-> after_from(mws, 1, t.result),
     blocked |-> FALSE, errorMessage |-> None,
     sensitivity |-> IF t.is_allowed.detectedSensitivity # <<>>
                     THEN t.is_allowed.detectedSensitivity ELSE <<>>]

error_payload(t) ==
    [kind |-> "error", prompt |-> "", response |-> "", blocked |-> FALSE,
     errorMessage |-> t.error,
     sensitivity |-> IF t.is_allowed.detectedSensitivity # <<>>
                     THEN t.is_allowed.detectedSensitivity ELSE <<>>]

Sent(p, prio) == [payload |-> p, priority |-> prio]

(***************************************************************************)
(* client/api.py send_to_api for a MonitorPayload: with batching enabled   *)
(* the payload goes to add_to_queue with the priority of the options and   *)
(* retries 0; otherwise send_with_retry posts the list [payload].          *)
(***************************************************************************)
send_to_api(isBatchingEnabled, sent) ==
    IF isBatchingEnabled
    THEN [via |-> "add_to_queue", payload |-> sent.payload,
          priority |-> sent.priority, retries |-> 0, body |-> <<>>]
    ELSE [via |-> "send_with_retry", payload |-> sent.payload,
          priority |-> sent.priority, retries |-> 0, body |-> <<sent.payload>>]

\* Mutant of run_task: the error payload is sent whatever send_on_function_error
\* says, and the success payload whatever capture is.
run_task_unconditional(mws, opts, t) ==
    IF t.task = "send_to_api" THEN <<Sent(t.payload, t.priority)>>
    ELSE IF t.task = "handle_success_monitoring"
         THEN <<Sent(success_payload(mws, t), opts.priority)>>
    ELSE <<Sent(error_payload(t), "high")>>

(***************************************************************************)
(* What one background task hands to send_to_api.  handle_success_         *)
(* monitoring builds and sends its payload only under "if options.capture".*)
(***************************************************************************)
run_task(mws, opts, t) ==
    IF t.task = "send_to_api" THEN <<Sent(t.payload, t.priority)>>
    ELSE IF t.task = "handle_success_monitoring"
         THEN IF opts.capture
              THEN <<Sent(success_payload(mws, t), opts.priority)>>
              ELSE <<>>
    ELSE IF opts.send_on_function_error THEN <<Sent(error_payload(t), "high")>>
    ELSE <<>>

Remove(s, i) == SubSeq(s, 1, i - 1) \o SubSeq(s, i + 1, Len(s))

(***************************************************************************)
(* Init: the state after import; no middleware, no call.                   *)
(***************************************************************************)
WInit ==
    /\ middlewares = <<>>
    /\ wrapper = "sync"
    /\ loop_running = FALSE
    /\ options = [capture |-> TRUE, send_on_function_error |-> TRUE,
                  priority |-> "normal"]
    /\ pc = "idle"
    /\ is_allowed = NoDecision
    /\ processed_args = <<>>
    /\ result = Unbound
    /\ function_error = Unbound
    /\ f_calls = 0
    /\ f_args = <<>>
    /\ outcome = NoOutcome
    /\ raised_details = NoDetails
    /\ dispatched = <<>>
    /\ background = <<>>
    /\ monitored = <<>>
    /\ calls = 0
    /\ control = NoReply
    /\ f_outcome = NoOutcome

\* middleware.py add_middleware
add_middleware(m) ==
    /\ Len(middlewares) < MaxMiddlewares
    /\ middlewares' = Append(middlewares, m)
    /\ UNCHANGED <<wrapper, loop_running, options, pc, is_allowed,
                   processed_args, result, function_error, f_calls, f_args,
                   outcome, raised_details, dispatched, background, monitored,
                   calls, control, f_outcome>>
    /\ UNCHANGED <<qvars, xvars>>

\* Mutant of remove_middleware: only the first entry of that name is removed.
remove_first_middleware(name) ==
    /\ \E i \in DOMAIN middlewares :
          /\ middlewares[i].name = name
          /\ \A j \in 1..(i - 1) : middlewares[j].name # name
          /\ middlewares' = Remove(middlewares, i)
    /\ UNCHANGED <<wrapper, loop_running, options, pc, is_allowed,
                   processed_args, result, function_error, f_calls, f_args,
                   outcome, raised_details, dispatched, background, monitored,
                   calls, control, f_outcome>>
    /\ UNCHANGED <<qvars, xvars>>

\* middleware.py remove_middleware
remove_middleware(name) ==
    /\ middlewares' = SelectSeq(middlewares, LAMBDA m : m.name # name)
    /\ middlewares' # middlewares
    /\ UNCHANGED <<wrapper, loop_running, options, pc, is_allowed,
                   processed_args, result, function_error, f_calls, f_args,
                   outcome, raised_details, dispatched, background, monitored,
                   calls, control, f_outcome>>
    /\ UNCHANGED <<qvars, xvars>>

\* A caller invokes a wrapped function: the wrapper logs and starts the control call.
Call(w, loop, opts) ==
    /\ pc = "idle"
    /\ calls < MaxCalls
    /\ w = "async" => loop
    /\ wrapper' = w
    /\ loop_running' = loop
    /\ options' = opts
    /\ pc' = "control"
    /\ is_allowed' = NoDecision
    /\ processed_args' = <<>>
    /\ result' = Unbound
    /\ function_error' = Unbound
    /\ f_calls' = 0
    /\ f_args' = <<>>
    /\ outcome' = NoOutcome
    /\ raised_details' = NoDetails
    /\ dispatched' = <<>>
    /\ monitored' = <<>>
    /\ calls' = calls + 1
    /\ control' = NoReply
    /\ f_outcome' = NoOutcome
    /\ UNCHANGED <<middlewares, background>>
    /\ UNCHANGED <<qvars, xvars>>

Raise(x) == [type |-> "raise", val |-> x]

\* The control call ends (response or failure) and the wrapper runs on to the
\* invocation of the user function, or to the end of the call.
ControlReply(reply) ==
    /\ pc = "control"
    /\ LET c == IF wrapper = "sync" THEN sync_control(loop_running, reply)
                ELSE async_control(reply)
           d == c.is_allowed
           b == apply_before_middleware(middlewares, <<>>)
       IN
       IF c.raised # "none"
       THEN /\ outcome' = IF wrapper = "sync" THEN Raise(c.raised)
                          ELSE LET h == async_outer_handler(function_error)
                               IN [type |-> h.do, val |-> h.val]
            /\ pc' = "done"
            /\ UNCHANGED <<is_allowed, processed_args, result, function_error,
                           f_calls, f_args, raised_details, dispatched,
                           background>>
       ELSE IF ~d.allowed
       THEN /\ is_allowed' = d
            /\ dispatched' = dispatched \o blocked_dispatch(d, <<>>)
            /\ background' = background \o blocked_dispatch(d, <<>>)
            /\ outcome' = Raise("OlakaiBlockedError")
            /\ raised_details' = [detectedSensitivity |-> d.detectedSensitivity,
                                  isAllowedPersona |-> d.isAllowedPersona,
                                  set |-> TRUE]
            /\ pc' = "done"
            /\ UNCHANGED <<processed_args, result, function_error, f_calls,
                           f_args>>
       ELSE IF wrapper = "async" /\ b.raised = "Exception"
       THEN /\ is_allowed' = d
            /\ outcome' = LET h == async_outer_handler(function_error)
                          IN [type |-> h.do, val |-> h.val]
            /\ pc' = "done"
            /\ UNCHANGED <<processed_args, result, function_error, f_calls,
                           f_args, raised_details, dispatched, background>>
       ELSE /\ is_allowed' = d
            /\ processed_args' = IF wrapper = "async" /\ b.raised = "none"
                                 THEN b.args ELSE <<>>
            /\ function_error' = IF wrapper = "async" THEN None ELSE function_error
            /\ result' = IF wrapper = "async" THEN None ELSE result
            /\ f_calls' = f_calls + 1
            /\ f_args' = processed_args'
            /\ pc' = "executing"
            /\ UNCHANGED <<outcome, raised_details, dispatched, background>>
    /\ control' = reply
    /\ UNCHANGED <<middlewares, wrapper, loop_running, options, monitored,
                   calls, f_outcome>>
    /\ UNCHANGED <<qvars, xvars>>

\* The user function returns or raises and the wrapper runs to its end.
FCompletes(fo) ==
    /\ pc = "executing"
    /\ LET x == IF wrapper = "sync"
                THEN sync_execute(fo, options, processed_args, is_allowed)
                ELSE async_execute(fo, options, processed_args, is_allowed)
       IN /\ outcome' = x.outcome
          /\ result' = x.result
          /\ function_error' = IF wrapper = "sync" THEN function_error
                               ELSE x.function_error
          /\ dispatched' = dispatched \o x.dispatch
          /\ background' = background \o x.dispatch
    /\ pc' = "done"
    /\ f_outcome' = fo
    /\ UNCHANGED <<middlewares, wrapper, loop_running, options, is_allowed,
                   processed_args, f_calls, f_args, raised_details, monitored,
                   calls, control>>
    /\ UNCHANGED <<qvars, xvars>>

\* shared/utils.py fire_and_forget, send_in_background: a worker of the executor
\* runs one submitted task; what the task raises is logged there.
RunBackground(i, fails) ==
    /\ i \in 1..Len(background)
    /\ background' = Remove(background, i)
    /\ monitored' = IF fails THEN monitored
                    ELSE monitored \o run_task(middlewares, options, background[i])
    /\ UNCHANGED <<middlewares, wrapper, loop_running, options, pc,
                   is_allowed, processed_args, result, function_error,
                   f_calls, f_args, outcome, raised_details, dispatched,
                   calls, control, f_outcome>>
    /\ UNCHANGED <<qvars, xvars>>

\* The caller has its return value or exception; the next call may start.
Finish ==
    /\ pc = "done"
    /\ background = <<>>
    /\ pc' = "idle"
    /\ UNCHANGED <<middlewares, wrapper, loop_running, options, is_allowed,
                   processed_args, result, function_error, f_calls, f_args,
                   outcome, raised_details, dispatched, background, monitored,
                   calls, control, f_outcome>>
    /\ UNCHANGED <<qvars, xvars>>

Next ==
    \/ \E m \in MiddlewareSet : add_middleware(m)
    \/ \E name \in {"m1", "m2"} : remove_middleware(name)
    \/ \E w \in {"sync", "async"}, loop \in BOOLEAN, opts \in MonitorOptionsSet :
          Call(w, loop, opts)
    \/ \E reply \in ControlReplies : ControlReply(reply)
    \/ \E fo \in FOutcomes : FCompletes(fo)
    \/ \E i \in DOMAIN background, fails \in BOOLEAN : RunBackground(i, fails)
    \/ Finish




(***************************************************************************)
(*                         The batch queue manager                         *)
(*                                                                         *)
(* Threads of control.  add_to_queue and _process_batch_queue are          *)
(* coroutines: they run on the event loop of whoever awaits them.  The     *)
(* supervisor reaches add_to_queue through fire_and_forget, whose worker   *)
(* thread runs each task under its own asyncio.run (a loop that lives for  *)
(* that one task and cancels the tasks left on it when the task ends); a   *)
(* program may also await add_to_queue / flush_queue on its own loop       *)
(* ("main").  The timers are asyncio tasks of the loop that scheduled      *)
(* them.  The suspensions of a thread of control are the POST of           *)
(* make_api_call (requests.post blocks the thread: only other threads run) *)
(* and the backoff sleep of send_with_retry (the loop is free: its timers  *)
(* may fire).  Nothing locks the queue, so an add_to_queue of one thread   *)
(* may run between the scan of another thread's add_to_queue and its       *)
(* append; the statements between two such points are one step.            *)
(*                                                                         *)
(* The transport is the dependency send_with_retry of QueueDependencies:   *)
(* each POST either fails (timeout, HTTP error) or returns a response.     *)
(***************************************************************************)
Workers == {"w1"}
Loops == {"main"} \cup Workers
Payloads == 1..(MaxPayloads + 1)
ActIds == Loops \X {"top", "timer"}

TimerNone == [set |-> FALSE, loop |-> "none", alive |-> FALSE]
Timer(L) == [set |-> TRUE, loop |-> L, alive |-> TRUE]

\* A BatchRequest; lid names the list object its payload field refers to.
NoBatch == [id |-> 0, lid |-> 0, payload |-> <<>>, retries |-> 0, priority |-> "normal"]
NoPend ==
    [p |-> 0, r |-> 0, prio |-> "normal", branch |-> "none", target |-> 0, tlist |-> 0,
     serialized |-> FALSE, blob |-> <<>>]
NoAct == [stack |-> <<>>, pend |-> NoPend]
NoStorage == [present |-> FALSE, blob |-> <<>>]

\* The adapters get_storage can hand out: file and memory (AUTO picks by
\* whether the environment is writable), no-op when storage was initialised
\* as DISABLED.
Adapters == {"file", "memory", "noop"}

\* remove_item of the storage key: the store afterwards and whether the call
\* returned (ok) or raised.  FileStorageService unlinks the file if it
\* exists, MemoryStorageService does `del self.storage[key]`,
\* NoOpStorageService does nothing.
remove_item(adapter, st) ==
    IF adapter = "noop" THEN [st |-> st, ok |-> TRUE]
    ELSE IF adapter = "memory" /\ ~st.present THEN [st |-> st, ok |-> FALSE]
    ELSE [st |-> NoStorage, ok |-> TRUE]

\* set_item of the storage key.
set_item(adapter, st, blob) ==
    IF adapter = "noop" THEN st ELSE [present |-> TRUE, blob |-> blob]

\* shared/types.py SDKConfig, the fields the queue manager reads.
SDKConfig(sizes, retries) ==
    [batchSize : sizes, retries : retries,
     enableStorage : BOOLEAN, maxStorageSize : {MaxStorageSize}]

(***************************************************************************)
(* The program around the queue manager: how many payloads it enqueues,    *)
(* with which priority and from which thread each, and how often it calls  *)
(* flush_queue and clear_queue.                                            *)
(***************************************************************************)
Workload(n, prios, loops, fl, cl) ==
    [n |-> n, prios |-> prios, loops |-> loops, flushes |-> fl, clears |-> cl]

\* Any two payloads, from any thread.
GeneralWorkload ==
    Workload(GeneralPayloads, [i \in 1..GeneralPayloads |-> Priorities],
             [i \in 1..GeneralPayloads |-> Loops], MaxFlushes, MaxClears)

\* Payloads of normal priority enqueued from the program's loop and from the
\* background worker at the same time.
ConcurrentWorkload ==
    Workload(MaxPayloads, [i \in 1..MaxPayloads |-> {"normal"}],
             [i \in 1..MaxPayloads |-> Loops], 0, 0)

\* P1 normal, P2 low, P3 high on the program's loop, then a drain.
PriorityWorkload ==
    Workload(3, <<{"normal"}, {"low"}, {"high"}>>, [i \in 1..3 |-> {"main"}],
             MaxFlushes, 0)

\* P1 low, P2 normal, P3 high, P4 normal on the program's loop: the drain P3
\* starts sorts three batches, and a fourth batch arrives afterwards.
EvictionWorkload ==
    Workload(4, <<{"low"}, {"normal"}, {"high"}, {"normal"}>>,
             [i \in 1..4 |-> {"main"}], 0, 0)

EvictionConfig ==
    [batchSize |-> 1, retries |-> 1, enableStorage |-> TRUE,
     maxStorageSize |-> LargeStorageSize]

\* The adapter matters only where storage is enabled.
Runs ==
    {run \in [config : SDKConfig({1, 2}, {0, 1}), workload : {GeneralWorkload},
              adapter : {"file", "memory"}] :
        run.config.enableStorage \/ run.adapter = "file"}
    \cup [config : SDKConfig({2}, {1}), workload : {ConcurrentWorkload},
          adapter : {"memory"}]
    \cup [config : SDKConfig({1, 3}, {0, 2}), workload : {PriorityWorkload},
          adapter : {"file"}]
    \cup [config : {EvictionConfig}, workload : {EvictionWorkload},
          adapter : {"file"}]

SeqToSet(sq) == {sq[i] : i \in DOMAIN sq}

RECURSIVE PayloadsOf(_)
PayloadsOf(q) ==
    IF q = <<>> THEN {} ELSE SeqToSet(Head(q).payload) \cup PayloadsOf(Tail(q))

(***************************************************************************)
(* _persist_queue: the serialized length of the queue (json.dumps), in     *)
(* units: the brackets, and per batch its own fields and its payloads.     *)
(***************************************************************************)
RECURSIVE SerializedLen(_)
SerializedLen(q) ==
    IF q = <<>> THEN BracketsLen
    ELSE BatchLen + PayloadLen * Len(Head(q).payload) + SerializedLen(Tail(q))

\* A _persist_queue that evicts nothing.
EvictNone(q, target) == q

RECURSIVE EvictOldest(_, _)
EvictOldest(q, target) ==
    IF SerializedLen(q) > target /\ q # <<>>
    THEN EvictOldest(Tail(q), target)
    ELSE q

\* The serializable form of the queue that _persist_queue writes: per batch
\* its id, payloads, retries and priority; the identity of the payload list
\* is not part of it.
serializable_queue(q) ==
    [k \in DOMAIN q |-> [id |-> q[k].id, payload |-> q[k].payload,
                         retries |-> q[k].retries, priority |-> q[k].priority]]

\* K is the queue manager's state together with the stack of the running
\* thread of control: q batch_queue, bt batch_timer, ct clear_retries_timer,
\* old the timer created first, st the stored blob, ad the storage adapter,
\* nid the next batch id,
\* fd the number of payloads in the queue at the first drain, stack the
\* frames of _process_batch_queue.
persist_queue(cfg, K) ==
    IF ~cfg.enableStorage THEN K
    ELSE LET kept == IF SerializedLen(K.q) > cfg.maxStorageSize
                     THEN EvictOldest(K.q, (cfg.maxStorageSize * 8) \div 10)
                     ELSE K.q
         IN [K EXCEPT !.q = kept, !.st = set_item(K.ad, K.st, serializable_queue(kept)),
                      !.ev = K.ev \cup (PayloadsOf(K.q) \ PayloadsOf(kept))]

\* _persist_queue up to its set_item: the eviction is done, the blob is
\* serialized and not yet written.
persist_serialize(cfg, K) ==
    [persist_queue(cfg, K) EXCEPT !.st = K.st]

\* _schedule_batch_processing: a no-op when batch_timer holds a task.
schedule_batch_processing(K, L) ==
    IF K.bt.set THEN K
    ELSE [K EXCEPT !.bt = Timer(L), !.old = IF K.ct.set THEN "ct" ELSE "bt"]

\* _schedule_clear_retries_queue
schedule_clear_retries_queue(K, L) ==
    IF K.ct.set THEN K
    ELSE [K EXCEPT !.ct = Timer(L), !.old = IF K.bt.set THEN "bt" ELSE "ct"]

PriorityOrder(prio) ==
    IF prio = "high" THEN 0 ELSE IF prio = "low" THEN 2 ELSE 1

IsRank0(b) == PriorityOrder(b.priority) = 0
IsRank1(b) == PriorityOrder(b.priority) = 1
IsRank2(b) == PriorityOrder(b.priority) = 2

\* The queue in the order it stands, not sorted.
Unsorted(q) == q

\* list.sort(key=priority_order): stable.
SortByPriority(q) ==
    SelectSeq(q, IsRank0) \o SelectSeq(q, IsRank1) \o SelectSeq(q, IsRank2)

\* A call of _process_batch_queue suspended in send_with_retry: the batch
\* popped, the attempt of the retry loop, the number of payloads in the body
\* of the POST under way, where it stands (post, sleep, requeue), the next
\* payload of the exception path, and whether add_to_queue awaits it.
Frame(b, via) ==
    [batch |-> b, attempt |-> 0, body |-> Len(b.payload), at |-> "post",
     next |-> 1, via_add |-> via]

LogDrain(so, b) ==
    LET first(p) == \A i \in DOMAIN so : so[i] # p
    IN so \o SelectSeq(b.payload, first)

(***************************************************************************)
(* _process_batch_queue up to the await of send_with_retry: cancel the     *)
(* timer, sort, pop the head, persist.  A frame is pushed when a batch is  *)
(* being sent; without one the call has returned.                          *)
(***************************************************************************)
process_start(cfg, K, L, via) ==
    LET K1 == [K EXCEPT !.bt = TimerNone, !.q = SortByPriority(K.q)] IN
    IF K1.q = <<>> THEN K1
    ELSE LET B == Head(K1.q)
             K2 == persist_queue(cfg,
                       [K1 EXCEPT !.q = Tail(K1.q),
                                  !.so = LogDrain(K1.so, B),
                                  !.fd = IF K1.so = <<>>
                                         THEN Cardinality(PayloadsOf(K1.q))
                                         ELSE K1.fd])
         IN IF B.payload = <<>>
            THEN IF K2.q # <<>> THEN schedule_batch_processing(K2, L) ELSE K2
            ELSE [K2 EXCEPT !.stack = <<Frame(B, via)>> \o K2.stack]

NewBatch(K, pl, r, prio) ==
    [id |-> K.nid, lid |-> K.nid, payload |-> pl, retries |-> r, priority |-> prio]

\* The index of the batch add_to_queue appends to: the last one that is not
\* full and has the same retries; 0 when there is none.
RECURSIVE CoalesceIndex(_, _, _, _)
CoalesceIndex(cfg, q, r, i) ==
    IF i = 0 THEN 0
    ELSE IF Len(q[i].payload) < cfg.batchSize /\ q[i].retries = r THEN i
    ELSE CoalesceIndex(cfg, q, r, i - 1)

\* add_to_queue up to the choice of its branch and of the batch to extend.
add_scan(cfg, q, p, r, prio) ==
    IF q = <<>>
    THEN [p |-> p, r |-> r, prio |-> prio, branch |-> "first", target |-> 0,
          tlist |-> 0, serialized |-> FALSE, blob |-> <<>>]
    ELSE LET i == CoalesceIndex(cfg, q, r, Len(q)) IN
         IF i > 0
         THEN [p |-> p, r |-> r, prio |-> prio, branch |-> "coalesce",
               target |-> q[i].id, tlist |-> q[i].lid, serialized |-> FALSE,
               blob |-> <<>>]
         ELSE [p |-> p, r |-> r, prio |-> prio, branch |-> "new", target |-> 0,
               tlist |-> 0, serialized |-> FALSE, blob |-> <<>>]

\* Mutant of Extend: the batch takes the priority of the payload it absorbs.
ExtendAssigns(b, pd) ==
    [b EXCEPT !.payload = IF b.lid = pd.tlist THEN Append(@, pd.p) ELSE @,
              !.priority = IF b.id = pd.target THEN pd.prio ELSE @]

\* batch.payload.append and batch.priority = "high" on the batch object the
\* scan chose: the append shows in every batch that refers to that list.
Extend(b, pd) ==
    [b EXCEPT !.payload = IF b.lid = pd.tlist THEN Append(@, pd.p) ELSE @,
              !.priority = IF b.id = pd.target /\ pd.prio = "high" THEN "high" ELSE @]

(***************************************************************************)
(* add_to_queue from the append on.  When _process_batch_queue is awaited  *)
(* and suspends in its send, a frame is on the stack and the call's last   *)
(* statement (_schedule_clear_retries_queue) runs when that frame returns. *)
(* The batch chosen by the scan is extended where it is: when it has left  *)
(* the queue the queue is unchanged.                                       *)
(***************************************************************************)
add_append(cfg, K, pd) ==
    IF pd.branch = "coalesce"
    THEN [K EXCEPT !.q = [k \in DOMAIN K.q |-> Extend(K.q[k], pd)]]
    ELSE [K EXCEPT !.q = Append(K.q, NewBatch(K, <<pd.p>>, pd.r, pd.prio)),
                   !.nid = K.nid + 1]

\* add_to_queue after its _persist_queue: the timers, or the drain of a
\* payload of priority high.
add_schedule(cfg, K, L, pd) ==
    LET depth == Len(K.stack) IN
    IF pd.branch = "first"
    THEN schedule_clear_retries_queue(schedule_batch_processing(K, L), L)
    ELSE LET K3 == IF pd.prio = "high" THEN process_start(cfg, K, L, TRUE)
                   ELSE schedule_batch_processing(K, L)
         IN IF Len(K3.stack) > depth THEN K3
            ELSE schedule_clear_retries_queue(K3, L)

add_apply(cfg, K, L, pd) ==
    add_schedule(cfg, persist_queue(cfg, add_append(cfg, K, pd)), L, pd)

\* add_to_queue run without another thread in between.
add_to_queue(cfg, K, L, p, r, prio) ==
    add_apply(cfg, K, L, add_scan(cfg, K.q, p, r, prio))

\* An exception path that re-adds the payloads without counting the retry.
requeue_args_same_retries(F) ==
    [payload |-> F.batch.payload[F.next], retries |-> F.batch.retries,
     priority |-> F.batch.priority]

\* The arguments of the add_to_queue call of the exception path.
requeue_args(F) ==
    [payload |-> F.batch.payload[F.next], retries |-> F.batch.retries + 1,
     priority |-> F.batch.priority]

(***************************************************************************)
(* The rest of _process_batch_queue once the send has ended, for the frame *)
(* on top of the stack: the exception path re-adds the payloads from       *)
(* frame.next on, then the queue is rescheduled and the call returns to    *)
(* the add_to_queue (or the caller) below it.                              *)
(***************************************************************************)
RECURSIVE continue(_, _, _)
continue(cfg, K, L) ==
    IF K.stack = <<>> THEN K
    ELSE LET F == Head(K.stack) IN
         IF F.at # "requeue" THEN K
         ELSE IF F.next > Len(F.batch.payload)
         THEN LET K1 == IF K.q # <<>> THEN schedule_batch_processing(K, L) ELSE K
                  K2 == [K1 EXCEPT !.stack = Tail(K1.stack)]
                  K3 == IF F.via_add THEN schedule_clear_retries_queue(K2, L) ELSE K2
              IN continue(cfg, K3, L)
         ELSE LET K1 == [K EXCEPT !.stack[1].next = F.next + 1]
                  args == requeue_args(F)
              IN continue(cfg, add_to_queue(cfg, K1, L, args.payload, args.retries,
                                            args.priority), L)

\* A sweep that keeps the batches that have just reached config.retries.
clear_retries_queue_late(cfg, K) ==
    LET keep(b) == b.retries <= cfg.retries
        K1 == [K EXCEPT !.ct = TimerNone, !.q = SelectSeq(K.q, keep)]
    IN IF Len(K1.q) # Len(K.q) THEN persist_queue(cfg, K1) ELSE K1

\* clear_retries_queue
clear_retries_queue(cfg, K) ==
    LET keep(b) == b.retries < cfg.retries
        K1 == [K EXCEPT !.ct = TimerNone, !.q = SelectSeq(K.q, keep)]
    IN IF Len(K1.q) # Len(K.q) THEN persist_queue(cfg, K1) ELSE K1

\* Every index of the body, whatever the results say.
AllOf(n, res) == [i \in 1..n |-> i]

\* The indices the response marks failed, in the order of result.results.
FailedOf(n, res) ==
    LET failed(i) == ~res[i] IN SelectSeq([i \in 1..n |-> i], failed)

\* The server's responses to a body of n payloads: result.success, and
\* result.results, index-aligned with the body, or absent.
Responses(n) ==
    {[success |-> TRUE, has_results |-> FALSE, results |-> <<>>],
     [success |-> FALSE, has_results |-> FALSE, results |-> <<>>]}
    \cup [success : {FALSE}, has_results : {TRUE}, results : [1..n -> BOOLEAN]]

\* A reconciliation that retries the whole batch whatever the results say.
AgainAll(F, resp) == IF resp.success THEN <<>> ELSE F.batch.payload

\* The payloads _process_batch_queue puts in new_batch for a response.
Again(F, resp) ==
    IF resp.success THEN <<>>
    ELSE IF resp.has_results
    THEN LET idx == FailedOf(F.body, resp.results)
         IN [k \in 1..Len(idx) |-> F.batch.payload[idx[k]]]
    ELSE F.batch.payload

(***************************************************************************)
(* _process_batch_queue once send_with_retry returned a response.          *)
(***************************************************************************)
reconcile(cfg, K, resp) ==
    LET F == Head(K.stack)
        done == [K EXCEPT !.stack[1].at = "requeue",
                          !.stack[1].next = Len(F.batch.payload) + 1]
        again == Again(F, resp)
    IN IF resp.success THEN persist_queue(cfg, done)
       ELSE IF again = <<>> THEN done
       ELSE LET nb == NewBatch(K, again, F.batch.retries + 1, F.batch.priority)
                \* new_batch.payload = payloads: the same list object
                new_batch == IF resp.has_results THEN nb
                             ELSE [nb EXCEPT !.lid = F.batch.lid]
            IN persist_queue(cfg, [done EXCEPT !.q = Append(K.q, new_batch),
                                               !.nid = K.nid + 1])

(***************************************************************************)
(* The queue manager's state machine.                                      *)
(***************************************************************************)
KOf(a) ==
    [q |-> batch_queue, bt |-> batch_timer, ct |-> clear_retries_timer,
     old |-> older_timer, st |-> storage, ad |-> storage_instance,
     nid |-> next_id,
     ev |-> evicted, so |-> sent_order, fd |-> first_drain_enq,
     stack |-> acts[a].stack]

\* asyncio.run of a worker's task ends when the task returns: the timers
\* left on its loop are cancelled, the fields keep referring to them.
CloseLoop(t, a, stack) ==
    IF a[2] = "top" /\ a[1] \in Workers /\ stack = <<>> /\ t.set /\ t.loop = a[1]
    THEN [t EXCEPT !.alive = FALSE]
    ELSE t

Commit(K, a, A) ==
    /\ batch_queue' = K.q
    /\ batch_timer' = CloseLoop(K.bt, a, K.stack)
    /\ clear_retries_timer' = CloseLoop(K.ct, a, K.stack)
    /\ older_timer' = K.old
    /\ storage' = K.st
    /\ next_id' = K.nid
    /\ evicted' = K.ev
    /\ sent_order' = K.so
    /\ first_drain_enq' = K.fd
    /\ acts' = [A EXCEPT ![a] = [stack |-> K.stack, pend |-> NoPend]]

\* The thread of loop L is neither inside a POST nor between the scan and
\* the append of an add_to_queue: the loop runs the callbacks that are due.
LoopFree(L) ==
    /\ acts[<<L, "timer">>] = NoAct
    /\ acts[<<L, "top">>].pend = NoPend
    /\ IF acts[<<L, "top">>].stack = <<>> THEN TRUE
       ELSE Head(acts[<<L, "top">>].stack).at = "sleep"

Due(t) == t.set /\ t.alive /\ LoopFree(t.loop)

\* Both timers sleep config.batchTimeout: the one created first is due first.
CanFire(t, other, name) ==
    /\ Due(t)
    /\ ~(Due(other) /\ older_timer # name)

\* The payloads a thread of control holds outside the queue.
RECURSIVE StackPayloads(_)
StackPayloads(stack) ==
    IF stack = <<>> THEN {}
    ELSE LET F == Head(stack)
             from == IF F.at = "requeue" THEN F.next ELSE 1
         IN {F.batch.payload[i] : i \in from..Len(F.batch.payload)}
            \cup StackPayloads(Tail(stack))

BodyOf(F) == {F.batch.payload[i] : i \in 1..F.body}

QInit ==
    /\ \E run \in Runs : /\ config = run.config /\ workload = run.workload
                         /\ storage_instance = run.adapter
    /\ batch_queue = <<>>
    /\ batch_timer = TimerNone
    /\ clear_retries_timer = TimerNone
    /\ older_timer = "bt"
    /\ storage = NoStorage
    /\ clear_raised = FALSE
    /\ acts = [a \in ActIds |-> NoAct]
    /\ next_id = 1
    /\ enqueued = 0
    /\ priority_of = [p \in Payloads |-> "none"]
    /\ delivered = {}
    /\ failed_sends = [p \in Payloads |-> 0]
    /\ swept = {}
    /\ evicted = {}
    /\ cleared = {}
    /\ cancelled = {}
    /\ failures = 0
    /\ flushes = 0
    /\ clears = 0
    /\ sent_order = <<>>
    /\ first_drain_enq = 0
    /\ raised_in = <<>>

\* send_to_api of a MonitorPayload with batching on, up to the scan of
\* add_to_queue (retries 0).
EnqueueScan(L, prio) ==
    /\ enqueued < workload.n
    /\ prio \in workload.prios[enqueued + 1]
    /\ L \in workload.loops[enqueued + 1]
    /\ acts[<<L, "top">>] = NoAct
    /\ acts[<<L, "timer">>] = NoAct
    /\ acts' = [acts EXCEPT ![<<L, "top">>].pend =
                    add_scan(config, batch_queue, enqueued + 1, 0, prio)]
    /\ enqueued' = enqueued + 1
    /\ priority_of' = [priority_of EXCEPT ![enqueued + 1] = prio]
    /\ UNCHANGED <<config, storage_instance,
                   clear_raised, workload, batch_queue, batch_timer,
                   clear_retries_timer, older_timer, storage, next_id,
                   delivered, failed_sends, swept, evicted, cleared,
                   cancelled, failures, flushes, clears, sent_order,
                   first_drain_enq>>
    /\ raised_in' = <<>>
    /\ UNCHANGED <<wvars, xvars>>

\* add_to_queue from the append on.
EnqueueApply(L) ==
    LET a == <<L, "top">>
        pd == acts[a].pend
        A == [x \in ActIds |->
                 [acts[x] EXCEPT !.stack =
                     [k \in DOMAIN acts[x].stack |->
                         [acts[x].stack[k] EXCEPT !.batch =
                             IF pd.branch = "coalesce" THEN Extend(@, pd) ELSE @]]]]
        K1 == persist_serialize(config, add_append(config, KOf(a), pd))
    IN /\ pd.branch # "none"
       /\ ~pd.serialized
       /\ IF config.enableStorage /\ workload = ConcurrentWorkload
          \* two threads enqueue at once: the other one runs during the write
          THEN /\ batch_queue' = K1.q
               /\ next_id' = K1.nid
               /\ evicted' = K1.ev
               /\ acts' = [A EXCEPT ![a].pend =
                               [pd EXCEPT !.serialized = TRUE,
                                          !.blob = serializable_queue(K1.q)]]
               /\ UNCHANGED <<batch_timer, clear_retries_timer, older_timer,
                              storage, sent_order, first_drain_enq>>
          ELSE Commit(add_apply(config, KOf(a), L, pd), a, A)
       /\ UNCHANGED <<config, storage_instance,
                   clear_raised, workload, enqueued, priority_of, delivered,
                      failed_sends, swept, cleared, cancelled, failures,
                      flushes, clears>>
       /\ raised_in' = <<>>
       /\ UNCHANGED <<wvars, xvars>>

\* add_to_queue from the set_item of its _persist_queue on: the blob
\* serialized at the append is written, whatever the queue has become.
EnqueueWrite(L) ==
    LET a == <<L, "top">>
        pd == acts[a].pend
        K == KOf(a)
        K1 == [K EXCEPT !.st = set_item(K.ad, K.st, pd.blob)]
    IN /\ pd.serialized
       /\ Commit(add_schedule(config, K1, L, pd), a, acts)
       /\ raised_in' = <<>>
       /\ UNCHANGED <<config, storage_instance,
                   clear_raised, workload, enqueued, priority_of, delivered,
                      failed_sends, swept, cleared, cancelled, failures,
                      flushes, clears>>
       /\ UNCHANGED <<wvars, xvars>>

\* A retry loop with one pass too many.
max_retries_more(retries) == retries + 1

\* send_with_retry: max_retries = config.retries if config.retries > 0 else 0
max_retries(retries) == IF retries > 0 THEN retries ELSE 0

MaxAttempts == max_retries(config.retries)

\* An attempt of send_with_retry fails (APITimeoutError, APIResponseError):
\* backoff sleep, or RetryExhaustedError and the exception path after the
\* last attempt.  A drain run by the timer task cancelled itself when it
\* began: its first sleep raises CancelledError, which nothing handles.
PostFails(a) ==
    LET stack == acts[a].stack
        F == Head(stack)
        K == KOf(a)
    IN /\ stack # <<>>
       /\ F.at = "post"
       /\ failures < MaxFailures
       /\ failures' = failures + 1
       /\ IF F.attempt < MaxAttempts
          THEN /\ IF a[2] = "timer"
                  THEN /\ Commit([K EXCEPT !.stack = <<>>], a, acts)
                       /\ cancelled' = cancelled \cup StackPayloads(stack)
                  ELSE /\ Commit([K EXCEPT !.stack[1].at = "sleep"], a, acts)
                       /\ UNCHANGED cancelled
               /\ UNCHANGED failed_sends
          ELSE /\ Commit(continue(config, [K EXCEPT !.stack[1].at = "requeue",
                                                    !.stack[1].next = 1], a[1]),
                         a, acts)
               /\ failed_sends' = [p \in Payloads |->
                                      IF p \in BodyOf(F) THEN failed_sends[p] + 1
                                      ELSE failed_sends[p]]
               /\ UNCHANGED cancelled
       /\ UNCHANGED <<config, storage_instance,
                   clear_raised, workload, enqueued, priority_of, delivered,
                      swept, cleared, flushes, clears>>
       /\ raised_in' = IF F.attempt < MaxAttempts THEN <<>> ELSE a
       /\ UNCHANGED <<wvars, xvars>>

\* The backoff sleep ends: the next attempt serializes the payload list again.
SleepDone(a) ==
    LET stack == acts[a].stack
        F == Head(stack)
    IN /\ stack # <<>>
       /\ F.at = "sleep"
       /\ acts[<<a[1], "timer">>] = NoAct
       /\ acts' = [acts EXCEPT ![a].stack[1] =
                       [F EXCEPT !.at = "post", !.attempt = F.attempt + 1,
                                 !.body = Len(F.batch.payload)]]
       /\ UNCHANGED <<config, storage_instance,
                   clear_raised, workload, batch_queue, batch_timer,
                      clear_retries_timer, older_timer, storage, next_id,
                      enqueued, priority_of, delivered, failed_sends, swept,
                      evicted, cleared, cancelled, failures, flushes, clears,
                      sent_order, first_drain_enq>>
       /\ raised_in' = <<>>
       /\ UNCHANGED <<wvars, xvars>>

\* The POST returns a response (HTTP 2xx).
PostResponds(a, resp) ==
    LET stack == acts[a].stack
        F == Head(stack)
        again == Again(F, resp)
        accepted == IF resp.success THEN BodyOf(F)
                    ELSE IF resp.has_results
                    THEN {F.batch.payload[i] : i \in {j \in 1..F.body : resp.results[j]}}
                    ELSE {}
    IN /\ stack # <<>>
       /\ F.at = "post"
       /\ resp \in Responses(F.body)
       /\ again # <<>> => failures < MaxFailures
       /\ failures' = IF again # <<>> THEN failures + 1 ELSE failures
       /\ Commit(continue(config, reconcile(config, KOf(a), resp), a[1]), a, acts)
       /\ delivered' = delivered \cup accepted
       /\ failed_sends' = [p \in Payloads |->
                              IF p \in SeqToSet(again) \cap BodyOf(F)
                              THEN failed_sends[p] + 1
                              ELSE failed_sends[p]]
       /\ UNCHANGED <<config, storage_instance,
                   clear_raised, workload, enqueued, priority_of, swept, cleared,
                      cancelled, flushes, clears>>
       /\ raised_in' = <<>>
       /\ UNCHANGED <<wvars, xvars>>

\* process_after_timeout: the drain timer's sleep ends on loop L.
DrainTimerFires(L) ==
    LET a == <<L, "timer">> IN
    /\ batch_timer.loop = L
    /\ CanFire(batch_timer, clear_retries_timer, "bt")
    /\ Commit(process_start(config, KOf(a), L, FALSE), a, acts)
    /\ UNCHANGED <<config, storage_instance,
                   clear_raised, workload, enqueued, priority_of, delivered,
                   failed_sends, swept, cleared, cancelled, failures, flushes,
                   clears>>
    /\ raised_in' = <<>>
    /\ UNCHANGED <<wvars, xvars>>

\* clear_after_timeout: the sweep timer's sleep ends on loop L.
SweepTimerFires(L) ==
    LET a == <<L, "timer">>
        K == clear_retries_queue(config, KOf(a))
    IN /\ clear_retries_timer.loop = L
       /\ CanFire(clear_retries_timer, batch_timer, "ct")
       /\ Commit(K, a, acts)
       /\ swept' = swept \cup {p \in PayloadsOf(batch_queue) :
                                  \E i \in DOMAIN batch_queue :
                                      /\ p \in SeqToSet(batch_queue[i].payload)
                                      /\ batch_queue[i].retries >= config.retries}
       /\ UNCHANGED <<config, storage_instance,
                   clear_raised, workload, enqueued, priority_of, delivered,
                      failed_sends, cleared, cancelled, failures, flushes,
                      clears>>
       /\ raised_in' = <<>>
       /\ UNCHANGED <<wvars, xvars>>

\* flush_queue awaited on the program's loop.
Flush ==
    LET a == <<"main", "top">> IN
    /\ flushes < workload.flushes
    /\ flushes' = flushes + 1
    /\ acts[a] = NoAct
    /\ acts[<<"main", "timer">>] = NoAct
    /\ Commit(process_start(config, KOf(a), "main", FALSE), a, acts)
    /\ UNCHANGED <<config, storage_instance,
                   clear_raised, workload, enqueued, priority_of, delivered,
                   failed_sends, swept, cleared, cancelled, failures, clears>>
    /\ raised_in' = <<>>
    /\ UNCHANGED <<wvars, xvars>>

\* clear_queue: the queue is emptied, then the blob is removed; the memory
\* adapter's remove_item raises KeyError when the key holds nothing.
Clear ==
    LET raises == config.enableStorage /\ ~remove_item(storage_instance, storage).ok IN
    /\ clears < workload.clears
    /\ clears' = clears + 1
    /\ LoopFree("main")
    /\ batch_queue' = <<>>
    /\ storage' = IF config.enableStorage
                  THEN remove_item(storage_instance, storage).st
                  ELSE storage
    /\ clear_raised' = (clear_raised \/ raises)
    /\ cleared' = cleared \cup PayloadsOf(batch_queue)
    /\ UNCHANGED <<config, storage_instance, workload, batch_timer,
                   clear_retries_timer, older_timer, acts, next_id, enqueued,
                   priority_of, delivered, failed_sends, swept, evicted,
                   cancelled, failures, flushes, sent_order, first_drain_enq>>
    /\ raised_in' = <<>>
    /\ UNCHANGED <<wvars, xvars>>

BodyLen(a) == IF acts[a].stack = <<>> THEN 0 ELSE Head(acts[a].stack).body

QueueNext ==
    \/ \E L \in Loops, prio \in Priorities : EnqueueScan(L, prio)
    \/ \E L \in Loops : EnqueueApply(L)
    \/ \E L \in Loops : EnqueueWrite(L)
    \/ \E a \in ActIds : PostFails(a)
    \/ \E a \in ActIds : SleepDone(a)
    \/ \E a \in ActIds : \E resp \in Responses(BodyLen(a)) : PostResponds(a, resp)
    \/ \E L \in Loops : DrainTimerFires(L)
    \/ \E L \in Loops : SweepTimerFires(L)
    \/ Flush
    \/ Clear

(***************************************************************************)
(* client/api.py: send_with_retry around make_api_call.                    *)
(***************************************************************************)
RetryConfigs ==
    [retries : 0..MaxRetries, apiKey : {"set", "missing"}, url : {"set", "missing"}]

CallTypes == {"monitoring", "control"}

NoCall ==
    [pc |-> "idle", config |-> [retries |-> 0, apiKey |-> "set", url |-> "set"],
     call_type |-> "monitoring", payload_ok |-> TRUE, attempt |-> 0,
     outcomes |-> <<>>, delays |-> <<>>, last_error |-> "none",
     raised |-> "none", cause |-> "none"]

\* How one call of make_api_call can end.  asdict of a payload that is no
\* dataclass raises TypeError before the try block.  requests.post raises
\* MissingSchema for a URL of None and InvalidHeader for an API key of None,
\* both RequestException: they become APIResponseError like any failure of
\* the request.  Otherwise the request times out, fails, or is answered.
make_api_call(cfg, payload_ok) ==
    IF ~payload_ok THEN {"TypeError"}
    ELSE IF cfg.url = "missing" \/ cfg.apiKey = "missing" THEN {"APIResponseError"}
    ELSE {"ok", "APITimeoutError", "APIResponseError"}

Retryable == {"APITimeoutError", "APIResponseError"}

RECURSIVE Pow2(_)
Pow2(n) == IF n = 0 THEN 1 ELSE 2 * Pow2(n - 1)

Min(x, y) == IF x < y THEN x ELSE y

\* A backoff without its ceiling.
backoff_delay_uncapped(attempt) == 1000 * Pow2(attempt)

\* delay = min(1000 * (2**attempt), 30000)
backoff_delay(attempt) == Min(1000 * Pow2(attempt), 30000)

RInit == retry_call = NoCall

send_with_retry(cfg, call_type, payload_ok) ==
    /\ retry_call.pc = "idle"
    /\ retry_call' = [NoCall EXCEPT !.pc = "attempt", !.config = cfg,
                                    !.call_type = call_type,
                                    !.payload_ok = payload_ok]
    /\ UNCHANGED <<wvars, qvars, adapter_store, sanitized>>

\* One pass of the loop body: the attempt and what the handler does with it.
Attempt(out) ==
    LET c == retry_call
        c1 == [c EXCEPT !.outcomes = Append(c.outcomes, out)]
    IN /\ c.pc = "attempt"
       /\ out \in make_api_call(c.config, c.payload_ok)
       /\ retry_call' =
              IF out = "ok" THEN [c1 EXCEPT !.pc = "returned"]
              ELSE IF out \in Retryable
              THEN IF c.attempt < max_retries(c.config.retries)
                   THEN [c1 EXCEPT !.pc = "sleep", !.last_error = out,
                                   !.delays = Append(c.delays, backoff_delay(c.attempt))]
                   ELSE [c1 EXCEPT !.pc = "raised", !.last_error = out,
                                   !.raised = "RetryExhaustedError", !.cause = out]
              ELSE [c1 EXCEPT !.pc = "raised", !.raised = out]
       /\ UNCHANGED <<wvars, qvars, adapter_store, sanitized>>

\* The backoff sleep ends: the next pass of the loop.
Backoff ==
    /\ retry_call.pc = "sleep"
    /\ retry_call' = [retry_call EXCEPT !.pc = "attempt", !.attempt = @ + 1]
    /\ UNCHANGED <<wvars, qvars, adapter_store, sanitized>>

RetryNext ==
    \/ \E cfg \in RetryConfigs, ct \in CallTypes, ok \in BOOLEAN :
           send_with_retry(cfg, ct, ok)
    \/ \E out \in {"ok", "TypeError"} \cup Retryable : Attempt(out)
    \/ Backoff

(***************************************************************************)
(* queueManagerPackage/storage: the three adapters, key by key.  A value   *)
(* is a string; what a key holds is a record like the queue's blob.        *)
(***************************************************************************)
Keys == {"k1", "k2"}
StoredValues == {"", "[]", "v"}
Null == "<None>"

\* get_item: MemoryStorageService returns `self.storage.get(key) or None`,
\* FileStorageService the file's text or None, NoOpStorageService None.
get_item(adapter, st) ==
    IF adapter = "noop" \/ ~st.present THEN Null
    ELSE IF adapter = "memory" /\ st.blob = "" THEN Null
    ELSE st.blob

NewStore(kind) ==
    [kind |-> kind, cells |-> [k \in Keys |-> NoStorage],
     op |-> "none", key |-> "none", got |-> Null, raised |-> "none"]

SIdle == adapter_store = NewStore("noop")
SInit == \E kind \in Adapters : adapter_store = NewStore(kind)

SetItem(k, v) ==
    /\ adapter_store' =
           [adapter_store EXCEPT !.cells[k] = set_item(adapter_store.kind, @, v),
                                 !.op = "set", !.key = k, !.got = Null,
                                 !.raised = "none"]
    /\ UNCHANGED <<wvars, qvars, retry_call, sanitized>>

GetItem(k) ==
    /\ adapter_store' =
           [adapter_store EXCEPT !.op = "get", !.key = k, !.raised = "none",
                                 !.got = get_item(adapter_store.kind,
                                                  adapter_store.cells[k])]
    /\ UNCHANGED <<wvars, qvars, retry_call, sanitized>>

RemoveItem(k) ==
    LET r == remove_item(adapter_store.kind, adapter_store.cells[k]) IN
    /\ adapter_store' =
           [adapter_store EXCEPT !.cells[k] = r.st, !.op = "remove", !.key = k,
                                 !.got = Null,
                                 !.raised = IF r.ok THEN "none" ELSE "KeyError"]
    /\ UNCHANGED <<wvars, qvars, retry_call, sanitized>>

\* clear: the dict is emptied, every *.json file is unlinked, or nothing.
ClearStore ==
    /\ adapter_store' =
           [adapter_store EXCEPT !.cells = IF adapter_store.kind = "noop" THEN @
                                           ELSE [k \in Keys |-> NoStorage],
                                 !.op = "clear", !.key = "none", !.got = Null,
                                 !.raised = "none"]
    /\ UNCHANGED <<wvars, qvars, retry_call, sanitized>>

StorageNext ==
    \/ \E k \in Keys, v \in StoredValues : SetItem(k, v)
    \/ \E k \in Keys : GetItem(k)
    \/ \E k \in Keys : RemoveItem(k)
    \/ ClearStore

(***************************************************************************)
(* shared/utils.py: to_json_value and sanitize_data.  A string is a        *)
(* sequence of words; a regex pattern matches one word wherever it stands, *)
(* and re.sub replaces every match.                                        *)
(***************************************************************************)
Words == {"a", "b"}
REDACTED == "[REDACTED]"
SANITIZED == <<"[SANITIZED]">>

RECURSIVE SeqsUpTo(_, _)
SeqsUpTo(S, n) ==
    IF n = 0 THEN {<<>>}
    ELSE LET shorter == SeqsUpTo(S, n - 1)
         IN shorter \cup {Append(sq, x) : sq \in shorter, x \in S}

Strings == SeqsUpTo(Words, MaxDataLen)

\* SanitizePattern(pattern, key, replacement)
SanitizePattern ==
    [pattern : Words \cup {None}, key : {"pass", None}, replacement : {"#", None}]

PatternLists == SeqsUpTo(SanitizePattern, MaxPatterns)

DataKeys == {"password", "name", None}

\* pattern.key in data_key: substring of the key
KeyIn(key, data_key) == key = "pass" /\ data_key = "password"

\* re.sub(pattern, replacement, data)
re_sub(pattern, replacement, data) ==
    [i \in DOMAIN data |-> IF data[i] = pattern THEN replacement ELSE data[i]]

or(replacement, default) == IF replacement = None THEN default ELSE replacement

\* The loop of sanitize_data from pattern i on: every branch of its body
\* returns, except for a pattern with neither pattern nor key.  re.sub with
\* a pattern of None raises TypeError, which the handler turns into
\* "[SANITIZED]".
RECURSIVE sanitize_from(_, _, _, _)
sanitize_from(data, data_key, patterns, i) ==
    IF i > Len(patterns) THEN data
    ELSE LET pattern == patterns[i] IN
         IF pattern.pattern # None
         THEN re_sub(pattern.pattern, or(pattern.replacement, REDACTED), data)
         ELSE IF pattern.key # None
         THEN IF data_key # None /\ KeyIn(pattern.key, data_key)
              THEN SANITIZED
              ELSE data
         ELSE sanitize_from(data, data_key, patterns, i + 1)

sanitize_data(data, data_key, patterns) ==
    IF patterns = <<>> THEN data
    ELSE sanitize_from(data, data_key, patterns, 1)

NotSanitized ==
    [done |-> FALSE, sanitize |-> FALSE, data |-> <<>>, data_key |-> None,
     patterns |-> <<>>, result |-> <<>>]

ZInit == sanitized = NotSanitized

\* to_json_value of a string: sanitize_data(str(val), None, patterns) when
\* sanitize is on, the value itself otherwise.
JsonLeaf(val, sanitize, patterns) ==
    /\ ~sanitized.done
    /\ sanitized' = [done |-> TRUE, sanitize |-> sanitize, data |-> val,
                     data_key |-> None, patterns |-> patterns,
                     result |-> IF sanitize THEN sanitize_data(val, None, patterns)
                                ELSE val]
    /\ UNCHANGED <<wvars, qvars, retry_call, adapter_store>>

\* to_json_value of a dictionary, for one of its entries with a string value.
JsonDictEntry(key, val, sanitize, patterns) ==
    /\ ~sanitized.done
    /\ sanitized' = [done |-> TRUE, sanitize |-> sanitize, data |-> val,
                     data_key |-> key, patterns |-> patterns,
                     result |-> IF sanitize THEN sanitize_data(val, key, patterns)
                                ELSE val]
    /\ UNCHANGED <<wvars, qvars, retry_call, adapter_store>>

SanitizeNext ==
    \/ \E val \in Strings, sanitize \in BOOLEAN, patterns \in PatternLists :
           JsonLeaf(val, sanitize, patterns)
    \/ \E key \in DataKeys \ {None}, val \in Strings, sanitize \in BOOLEAN,
          patterns \in PatternLists :
           JsonDictEntry(key, val, sanitize, patterns)

XInit == RInit /\ SIdle /\ ZInit

(***************************************************************************)
(* The two specifications: the supervisor around one wrapped call with the *)
(* queue manager idle, and the queue manager with the supervisor idle.     *)
(***************************************************************************)
IdleConfig ==
    [batchSize |-> 1, retries |-> 0, enableStorage |-> FALSE,
     maxStorageSize |-> MaxStorageSize]

QIdle ==
    /\ QInit
    /\ config = IdleConfig /\ workload = GeneralWorkload /\ storage_instance = "file"

Init == WInit /\ QIdle /\ XInit

Spec == Init /\ [][Next]_vars

QueueInit == QInit /\ WInit /\ XInit

QueueSpec == QueueInit /\ [][QueueNext]_vars

\* One call of the retry wrapper, everything else idle.
RetrySpec == Init /\ [][RetryNext]_vars

\* One storage adapter of any kind, everything else idle.
StorageInit == WInit /\ QIdle /\ RInit /\ SInit /\ ZInit
StorageSpec == StorageInit /\ [][StorageNext]_vars

\* to_json_value on one string leaf, everything else idle.
SanitizeSpec == Init /\ [][SanitizeNext]_vars

(***************************************************************************)
(* Claims about the supervisor, checked under Spec.                        *)
(***************************************************************************)
Ended == pc \in {"done", "idle"} /\ calls > 0

\* C1 (as stated): when a wrapped call has ended, the user function was invoked
\* at most once, and it was invoked zero times exactly when the control
\* decision was not "allowed".
C1_AtMostOnceIffAllowed ==
    /\ f_calls <= 1
    /\ Ended => (f_calls = 0 <=> ~is_allowed.allowed)

\* C2: when the decision is allowed and the user function returned v, the
\* wrapper's caller gets exactly v, whatever the after_call hooks and the
\* background monitoring do.
C2_ReturnValueUnchanged ==
    (Ended /\ is_allowed.allowed /\ f_outcome.type = "return")
        => outcome = [type |-> "return", val |-> f_outcome.val]

C2_Witness ==
    /\ Ended /\ is_allowed.allowed /\ f_outcome.type = "return"
    /\ outcome = [type |-> "return", val |-> "v1"]
    /\ \E i \in DOMAIN monitored :
          /\ monitored[i].payload.kind = "success"
          /\ monitored[i].payload.response = "replaced"

\* C3 (as stated): when the decision is allowed and the user function raised e,
\* the wrapper raises that same e.
C3_SameExceptionRaised ==
    (Ended /\ is_allowed.allowed /\ f_outcome.type = "raise")
        => outcome = [type |-> "raise", val |-> f_outcome.val]

\* C4 (as stated): when the control call fails, the user function is not
\* invoked and the call ends with OlakaiBlockedError, in both wrappers.
C4_ControlFailureBlocks ==
    (Ended /\ control.kind = "error")
        => f_calls = 0 /\ outcome = [type |-> "raise", val |-> "OlakaiBlockedError"]

\* C5: when the control decision is allowed=false, the wrapper raises
\* OlakaiBlockedError carrying the decision's details, and exactly one
\* monitoring payload is dispatched for the call: blocked, with the detected
\* sensitivity, at priority high.
C5_BlockedCall ==
    (Ended /\ control.kind = "response" /\ ~control.allowed)
        => /\ outcome = [type |-> "raise", val |-> "OlakaiBlockedError"]
           /\ raised_details = [detectedSensitivity |-> control.detectedSensitivity,
                                isAllowedPersona |-> control.isAllowedPersona,
                                set |-> TRUE]
           /\ Len(dispatched) = 1
           /\ dispatched[1].task = "send_to_api"
           /\ dispatched[1].payload.blocked
           /\ dispatched[1].payload.sensitivity = control.detectedSensitivity
           /\ dispatched[1].priority = "high"
           /\ \A i \in DOMAIN monitored :
                 monitored[i] = Sent(dispatched[1].payload, "high")
           /\ Len(monitored) <= 1

C5_Witness ==
    /\ Ended /\ control.kind = "response" /\ ~control.allowed
    /\ control.detectedSensitivity = <<"pii">>
    /\ Len(monitored) = 1
    /\ monitored[1].payload.sensitivity = <<"pii">>

\* C6: the user function never starts before the control decision of its call
\* has been received, and while the control call is outstanding the caller has
\* neither a return value nor an exception (it is blocked), also in the sync
\* wrapper.
C6_DecisionBeforeExecution ==
    /\ f_calls > 0 => is_allowed.received /\ control.kind = "response"
    /\ pc = "control" => f_calls = 0 /\ outcome = NoOutcome

C6_Witness ==
    /\ pc = "executing" /\ wrapper = "sync" /\ ~loop_running
    /\ f_calls = 1 /\ is_allowed.received

(***************************************************************************)
(* Claims about the queue manager, checked under QueueSpec.                *)
(***************************************************************************)
InQueue == PayloadsOf(batch_queue)
InFlight == UNION {StackPayloads(acts[a].stack) : a \in ActIds}
Pending == {acts[a].pend.p : a \in {x \in ActIds : acts[x].pend # NoPend}}

\* The payload was handed to add_to_queue and the queue manager no longer
\* holds it, in the queue or in a send.
Gone(p) == p <= enqueued /\ p \notin (InQueue \cup InFlight \cup Pending)

FramesOf(a) == {acts[a].stack[k] : k \in DOMAIN acts[a].stack}
Batches == SeqToSet(batch_queue) \cup {F.batch : F \in UNION {FramesOf(a) : a \in ActIds}}

\* C7: a payload that has left the queue manager (other than by clear_queue)
\* was accepted by the server in a POST, or was dropped after exactly
\* config.retries + 1 failed sends: none disappears before being sent.
C7_DeliveredOrDroppedAfterRetries ==
    \A p \in Payloads :
        (Gone(p) /\ p \notin cleared)
            => (p \in delivered \/ failed_sends[p] = config.retries + 1)

\* C8: the retries counter of every batch in the queue or in flight is at
\* most config.retries + 1.
C8_RetriesBounded ==
    \A b \in Batches : b.retries <= config.retries + 1

\* C9: every batch in the queue holds at most config.batchSize payloads.
C9_BatchSizeBounded ==
    \A i \in DOMAIN batch_queue : Len(batch_queue[i].payload) <= config.batchSize

PositionIn(sq, x) == CHOOSE i \in DOMAIN sq : sq[i] = x
SentBefore(x, y) ==
    (x \in SeqToSet(sent_order) /\ y \in SeqToSet(sent_order))
        => PositionIn(sent_order, x) < PositionIn(sent_order, y)

\* Scenario D: P1 normal, P2 low and P3 high were handed to the queue
\* manager and all three stood in the queue when the first drain began.
ScenarioD ==
    /\ enqueued = 3
    /\ priority_of[1] = "normal" /\ priority_of[2] = "low" /\ priority_of[3] = "high"
    /\ first_drain_enq = 3

SentP3P1P2 ==
    /\ sent_order # <<>> => sent_order[1] = 3
    /\ SentBefore(3, 1) /\ SentBefore(1, 2) /\ SentBefore(3, 2)

DrainStarted(a) ==
    /\ acts'[a].stack # <<>>
    /\ Head(acts'[a].stack).at = "post"
    /\ \A F \in FramesOf(a) : F.batch.id # Head(acts'[a].stack).batch.id

\* Where a batch stood in the queue when the drain of this step sorted it:
\* its index, and behind all of them the batches the step itself appended.
PlaceOf(b) ==
    IF \E i \in DOMAIN batch_queue : batch_queue[i].id = b.id
    THEN CHOOSE i \in DOMAIN batch_queue : batch_queue[i].id = b.id
    ELSE Len(batch_queue) + b.id

HeadOfSort(a) ==
    LET B == Head(acts'[a].stack).batch IN
    \A i \in DOMAIN batch_queue' :
        LET b == batch_queue'[i] IN
        \/ PriorityOrder(B.priority) < PriorityOrder(b.priority)
        \/ /\ PriorityOrder(B.priority) = PriorityOrder(b.priority)
           /\ PlaceOf(B) < PlaceOf(b)

Posting == {a \in ActIds : acts[a].stack # <<>> /\ Head(acts[a].stack).at = "post"}

\* The responses that carry a result for every index of the body.
Detailed(a) == {resp \in Responses(BodyLen(a)) : resp.has_results}

\* The batches reconciliation added to the queue q0, giving q1.
NewIn(q0, q1) == {b \in SeqToSet(q1) : \A i \in DOMAIN q0 : q0[i].id # b.id}

FailedPayloads(F, resp) == {F.batch.payload[i] : i \in {j \in 1..F.body : ~resp.results[j]}}
AcceptedPayloads(F, resp) == {F.batch.payload[i] : i \in {j \in 1..F.body : resp.results[j]}}

Reconciled(a, resp) ==
    LET K == KOf(a)
        F == Head(K.stack)
        K2 == reconcile(config, K, resp)
        new == NewIn(K.q, K2.q)
        failed == FailedPayloads(F, resp)
    IN /\ Cardinality(new) <= 1
       /\ \A b \in new : /\ b.retries = F.batch.retries + 1
                         /\ b.priority = F.batch.priority
                         /\ SeqToSet(b.payload) = failed
                         /\ Len(b.payload) = Cardinality(failed)
       /\ (failed # {} /\ new = {}) => failed \subseteq K2.ev
       /\ AcceptedPayloads(F, resp) \cap PayloadsOf(K2.q) = {}
       /\ \A i \in DOMAIN K.q : \/ K.q[i] \in SeqToSet(K2.q)
                                \/ SeqToSet(K.q[i].payload) \subseteq K2.ev

Places ==
    UNION {{<<i, k>> : k \in DOMAIN batch_queue[i].payload} : i \in DOMAIN batch_queue}

\* How many times payload p stands in the batches of the queue.
Occurrences(p) ==
    Cardinality({x \in Places : batch_queue[x[1]].payload[x[2]] = p})

Held == Cardinality(Places)

Dropped == swept \cup evicted \cup cleared

C13_BlobWithinMaxStorageSize ==
    storage.present => SerializedLen(storage.blob) <= config.maxStorageSize

\* _persist_queue evicted the oldest batch and wrote the rest.
C13_Witness ==
    /\ config.enableStorage
    /\ evicted # {}
    /\ storage.present /\ storage.blob # <<>>
    /\ SerializedLen(storage.blob) <= (config.maxStorageSize * 8) \div 10

\* C14: a call of clear_queue returns without raising, from any state; it
\* leaves the queue empty and no blob (or an empty one) in storage, and it
\* sends nothing.
C14_ClearLeavesNothing ==
    [][clears' = clears + 1 =>
           /\ clear_raised' => clear_raised
           /\ batch_queue' = <<>>
           /\ storage'.present => storage'.blob = <<>>
           /\ sent_order' = sent_order /\ delivered' = delivered
           /\ acts' = acts]_vars

\* The frames of the program's own calls on its loop; the bottom one is a
\* flush_queue call when no add_to_queue awaits it.
MainStack == acts[<<"main", "top">>].stack
Bottom(stack) == stack[Len(stack)]
FlushActive == MainStack # <<>> /\ ~Bottom(MainStack).via_add

\* flush_queue waits for the send of a batch other than the one it popped.
FlushWaitsForAnother ==
    /\ FlushActive
    /\ Len(MainStack) >= 2
    /\ Head(MainStack).at = "post"

\* The flush_queue call of this step popped the head of the priority order
\* and is sending it.
FlushDrainsHead ==
    batch_queue # <<>> =>
        /\ acts'[<<"main", "top">>].stack # <<>>
        /\ Head(acts'[<<"main", "top">>].stack).batch = Head(SortByPriority(batch_queue))
        /\ Head(acts'[<<"main", "top">>].stack).at = "post"
        /\ ~batch_timer'.set

\* C15: flush_queue drains at once, whatever the drain timer, the batch that
\* heads the priority order, and it returns once that send has been
\* attempted: it never waits for the send of another batch.
C15_FlushAttemptsTheHeadOnly ==
    /\ [][flushes' = flushes + 1 => FlushDrainsHead]_vars
    /\ [](~FlushWaitsForAnother)

\* An add_to_queue called by send_to_api has not returned: it awaits the
\* drain it started, which is inside a POST or a backoff sleep.
EnqueueWaits(L) ==
    LET stack == acts[<<L, "top">>].stack IN
    /\ stack # <<>>
    /\ Bottom(stack).via_add
    /\ Head(stack).at \in {"post", "sleep"}

\* C16: no enqueue waits for a monitoring transport call, whatever the
\* priority.
C16_EnqueueNeverWaitsForTransport == \A L \in Loops : ~EnqueueWaits(L)

(***************************************************************************)
(* Claims about the retry wrapper, checked under RetrySpec.                *)
(***************************************************************************)
Finished == retry_call.pc \in {"returned", "raised"}
Attempts == Len(retry_call.outcomes)
AllFailed ==
    /\ Attempts = retry_call.config.retries + 1
    /\ \A i \in DOMAIN retry_call.outcomes : retry_call.outcomes[i] \in Retryable

\* C17: a call makes at most config.retries + 1 attempts; an attempt that
\* succeeds is the last one and its response is returned; RetryExhaustedError
\* is raised exactly when all config.retries + 1 attempts failed with a
\* retryable error, and it carries the last of them as its cause.
C17_RetryWrapper ==
    /\ Attempts <= retry_call.config.retries + 1
    /\ \A i \in DOMAIN retry_call.outcomes :
           retry_call.outcomes[i] = "ok" => i = Attempts /\ retry_call.pc = "returned"
    /\ retry_call.pc = "returned" => retry_call.outcomes[Attempts] = "ok"
    /\ Finished => (retry_call.raised = "RetryExhaustedError" <=> AllFailed)
    /\ retry_call.raised = "RetryExhaustedError" =>
           retry_call.cause = retry_call.outcomes[Attempts]

\* With retries = 2 the request failed, timed out and timed out again:
\* RetryExhaustedError from the last timeout, after two backoff sleeps.
C17_Witness ==
    /\ retry_call.config.retries = 2
    /\ retry_call.outcomes = <<"APIResponseError", "APITimeoutError", "APITimeoutError">>
    /\ retry_call.pc = "raised" /\ retry_call.raised = "RetryExhaustedError"
    /\ retry_call.cause = "APITimeoutError"
    /\ Len(retry_call.delays) = 2

ConfigMissing ==
    retry_call.config.apiKey = "missing" \/ retry_call.config.url = "missing"

\* C18: with the API key or the URL missing the wrapper makes one attempt,
\* never sleeps, and raises the configuration error itself.
C18_ConfigurationErrorNotRetried ==
    (ConfigMissing /\ retry_call.payload_ok) =>
        /\ Attempts <= 1
        /\ retry_call.pc # "sleep"
        /\ retry_call.pc = "raised" =>
               retry_call.raised \in {"APIKeyMissingError", "URLConfigurationError"}

(***************************************************************************)
(* Claims about the storage adapters, checked under StorageSpec.           *)
(***************************************************************************)
\* The operation of this step was applied to a key that holds nothing (for
\* clear: to a store that holds nothing).
OnMissingKey ==
    /\ adapter_store'.op \in {"get", "remove", "clear"}
    /\ IF adapter_store'.op = "clear"
       THEN \A k \in Keys : ~adapter_store.cells[k].present
       ELSE ~adapter_store.cells[adapter_store'.key].present

\* C19: for each adapter, get, remove and clear on a missing key do not
\* raise and leave what is stored unchanged, and get returns null.
C19_MissingKeyIsHarmless ==
    [][OnMissingKey =>
           /\ adapter_store'.raised = "none"
           /\ adapter_store'.cells = adapter_store.cells
           /\ adapter_store'.op = "get" => adapter_store'.got = Null]_vars

(***************************************************************************)
(* Claims about sanitization, checked under SanitizeSpec.                  *)
(***************************************************************************)
\* The regex patterns configured, and whether a string holds a match of one.
RegexOf(patterns) ==
    {patterns[i].pattern : i \in {j \in DOMAIN patterns : patterns[j].pattern # None}}
Matches(str, regexes) == \E i \in DOMAIN str : str[i] \in regexes

\* C20: with sanitization on, the sanitized value holds no match of any
\* configured regex pattern; with no patterns, or with sanitization off, the
\* value is returned unchanged.
C20_EveryPatternApplied ==
    sanitized.done =>
        /\ sanitized.sanitize =>
               ~Matches(sanitized.result, RegexOf(sanitized.patterns))
        /\ (sanitized.patterns = <<>> \/ ~sanitized.sanitize) =>
               sanitized.result = sanitized.data


(***************************************************************************)
(* Claims about the payloads of a call and about the middlewares, checked  *)
(* under Spec.                                                             *)
(***************************************************************************)
RangeOf(sq) == {sq[i] : i \in DOMAIN sq}

\* What the background tasks of the call hand to send_to_api when they run.
RECURSIVE Produced(_, _, _)
Produced(mws, opts, ts) ==
    IF ts = <<>> THEN <<>>
    ELSE run_task(mws, opts, Head(ts)) \o Produced(mws, opts, Tail(ts))

Raised == Ended /\ is_allowed.allowed /\ f_outcome.type = "raise"

\* C21: for an allowed call whose user function raised, the background tasks
\* of the call produce exactly one payload when send_on_function_error is true
\* (an error payload: prompt and response empty, errorMessage the error,
\* priority high) and none when it is false; nothing else reaches send_to_api
\* for the call, in particular no success payload.
C21_ErrorPayloadIffSendOnFunctionError ==
    Raised =>
        LET P == Produced(middlewares, options, dispatched) IN
        /\ Len(P) = IF options.send_on_function_error THEN 1 ELSE 0
        /\ \A i \in DOMAIN P :
              /\ P[i].payload.kind = "error"
              /\ P[i].payload.prompt = ""
              /\ P[i].payload.response = ""
              /\ P[i].payload.errorMessage = f_outcome.val
              /\ ~P[i].payload.blocked
              /\ P[i].priority = "high"
        /\ RangeOf(monitored) \subseteq RangeOf(P)
        /\ Len(monitored) <= Len(P)
        /\ \A i \in DOMAIN dispatched :
              dispatched[i].task # "handle_success_monitoring"

C21_Witness ==
    /\ Raised /\ wrapper = "sync" /\ options.send_on_function_error
    /\ background = <<>>
    /\ Len(monitored) = 1
    /\ monitored[1].payload.kind = "error"
    /\ monitored[1].payload.errorMessage = "ValueError"
    /\ monitored[1].priority = "high"

Returned == Ended /\ is_allowed.allowed /\ f_outcome.type = "return"

\* C22 (as stated): for an allowed call whose user function returned, the
\* background tasks of the call produce exactly one payload, a success payload
\* (blocked = false) at the priority of the options, and nothing else reaches
\* send_to_api for the call; with batching off send_to_api posts it as a
\* one-element array.
C22_OneSuccessPayload ==
    Returned =>
        LET P == Produced(middlewares, options, dispatched) IN
        /\ Len(P) = 1
        /\ \A i \in DOMAIN P :
              /\ P[i].payload.kind = "success"
              /\ ~P[i].payload.blocked
              /\ P[i].priority = options.priority
              /\ send_to_api(FALSE, P[i]).body = <<P[i].payload>>
        /\ \A i \in DOMAIN monitored :
              /\ monitored[i].payload.kind = "success"
              /\ monitored[i].priority = options.priority
        /\ Len(monitored) <= 1

\* The pre-pass the claim describes: each before_call hook transforms what the
\* previous one produced, and the pass stops at the first hook that raises.
RECURSIVE Chained(_, _, _)
Chained(mws, i, cur) ==
    IF i > Len(mws) THEN cur
    ELSE IF mws[i].before_call = "none" THEN Chained(mws, i + 1, cur)
    ELSE IF mws[i].before_call = "ok"
         THEN Chained(mws, i + 1, Append(cur, mws[i].name))
    ELSE cur

\* C23 (as stated): when the control decision of a call is "allowed", the user
\* function is invoked, with the arguments produced by running the before_call
\* hooks in registration order, each on the output of the previous one, up to
\* the first hook that raises.
C23_BeforeCallChain ==
    [][(pc = "control" /\ pc' # "control" /\ is_allowed'.allowed)
          => (f_calls' = 1 /\ f_args' = Chained(middlewares, 1, <<>>))]_vars

\* new is old without its entries of that name: the other entries, all of
\* them, in their order.
Without(old, new, name) ==
    \E g \in [DOMAIN new -> DOMAIN old] :
        /\ \A i, j \in DOMAIN new : i < j => g[i] < g[j]
        /\ \A i \in DOMAIN new : new[i] = old[g[i]]
        /\ {g[i] : i \in DOMAIN new} = {j \in DOMAIN old : old[j].name # name}

NoWriteInFlight == \A a \in ActIds : ~acts[a].pend.serialized

\* The step in which the add_to_queue called on loop L appends payload p.
Appends(L, p) ==
    /\ acts[<<L, "top">>].pend # NoPend
    /\ ~acts[<<L, "top">>].pend.serialized
    /\ acts[<<L, "top">>].pend.p = p
    /\ acts'[<<L, "top">>].pend # acts[<<L, "top">>].pend

\* The step in which the add_to_queue of payload p called on loop L returns,
\* or suspends in the drain it started.
Returns(L, p) ==
    /\ acts[<<L, "top">>].pend # NoPend
    /\ acts[<<L, "top">>].pend.p = p
    /\ acts'[<<L, "top">>].pend = NoPend

\* The last batch of q that is not full and has retries r; 0 without one.
Latest(q, r) ==
    LET S == {i \in DOMAIN q :
                 Len(q[i].payload) < config.batchSize /\ q[i].retries = r}
    IN IF S = {} THEN 0 ELSE CHOOSE i \in S : \A j \in S : j <= i

\* C25 (as stated): an add_to_queue that finds the queue non-empty appends its
\* payload to the last batch of the queue that holds fewer than batchSize
\* payloads and has the same retries, and otherwise puts it in a new batch of
\* its own (which stands at the tail unless the call drains it at once); the
\* payload is in no other batch.  A payload that _persist_queue evicts in the
\* same call is not looked at.
C25_CoalesceIntoLatestOpenBatch ==
    [][\A L \in Loops, p \in Payloads :
          (Appends(L, p) /\ batch_queue # <<>> /\ p \notin evicted')
              => LET i == Latest(batch_queue, acts[<<L, "top">>].pend.r) IN
                 /\ \A b \in Batches' :
                       p \in SeqToSet(b.payload)
                           => IF i > 0
                              THEN /\ b.id = batch_queue[i].id
                                   /\ b.payload = Append(batch_queue[i].payload, p)
                              ELSE /\ b.id = next_id
                                   /\ b.payload = <<p>>
                 /\ \E b \in Batches' : p \in SeqToSet(b.payload)]_vars

\* C26 (as stated): the add_to_queue of a payload starts a drain within the
\* call (a batch is popped and its send begun) exactly when the priority is
\* high or the batch that received the payload is full, the first payload of
\* an empty queue included; every other call leaves a drain timer set.
C26_ImmediateDrainIffHighOrFull ==
    [][\A L \in Loops, p \in Payloads :
          (Returns(L, p) /\ p \notin evicted')
              => LET high == acts[<<L, "top">>].pend.prio = "high"
                     full == \E b \in Batches' :
                                /\ p \in SeqToSet(b.payload)
                                /\ Len(b.payload) >= config.batchSize
                     drains == acts'[<<L, "top">>].stack # <<>>
                 IN /\ drains <=> (high \/ full)
                    /\ ~drains => batch_timer'.set]_vars

\* C27: in every step, a batch that stays in the queue or in a send keeps its
\* priority or becomes high, and it changes only while absorbing a payload;
\* the batch that absorbs a payload of priority high is high afterwards; and
\* a batch that is new in the step has the priority its payload was enqueued
\* with or, when it carries payloads of a batch that was being sent
\* (reconciliation, re-enqueue), the priority of that batch, or high once it
\* absorbed in the same step a payload re-enqueued from a batch of priority
\* high.
C27_PriorityOnlyRaised ==
    [][/\ \A b \in Batches : \A c \in Batches' :
             b.id = c.id
                 => /\ c.priority \in {b.priority, "high"}
                    /\ c.priority # b.priority
                          => Len(c.payload) > Len(b.payload)
       /\ \A L \in Loops, p \in Payloads :
             (Appends(L, p) /\ acts[<<L, "top">>].pend.prio = "high")
                 => \A c \in Batches' :
                        (c.id < next_id /\ p \in SeqToSet(c.payload)
                            /\ c.id = acts[<<L, "top">>].pend.target)
                            => c.priority = "high"
       /\ \A c \in Batches' :
             c.id >= next_id
                 => \/ \E L \in Loops, p \in Payloads :
                          /\ Appends(L, p)
                          /\ c.payload = <<p>>
                          /\ c.priority = acts[<<L, "top">>].pend.prio
                    \/ \E a \in ActIds : \E F \in FramesOf(a) :
                          /\ c.payload # <<>>
                          /\ c.payload[1] \in SeqToSet(F.batch.payload)
                          /\ \/ c.priority = F.batch.priority
                             \/ /\ c.priority = "high"
                                /\ \E G \in FramesOf(a) :
                                      /\ G.batch.priority = "high"
                                      /\ SeqToSet(c.payload) \cap SeqToSet(G.batch.payload) # {}]_vars

\* A batch that held a payload of priority normal absorbed one of priority
\* high and is high.
C27_Witness ==
    /\ priority_of[1] = "normal" /\ priority_of[2] = "high"
    /\ \E b \in Batches : b.payload = <<1, 2>> /\ b.priority = "high"

\* A drain timer is pending: batch_timer holds a task that will fire.
TimerPending == batch_timer.set /\ batch_timer.alive

\* C28 (as stated): an add_to_queue that returns without draining has asked
\* for a drain to be scheduled, and a drain timer is pending afterwards; a
\* timer that was pending before the request is the one pending after it;
\* and whenever batch_timer holds a timer, so that a request is a no-op, that
\* timer is pending.
C28_OneDrainTimerPending ==
    /\ [][\A L \in Loops, p \in Payloads :
              (Returns(L, p) /\ acts'[<<L, "top">>].stack = <<>>)
                  => /\ TimerPending'
                     /\ TimerPending => batch_timer' = batch_timer]_vars
    /\ [](batch_timer.set => batch_timer.alive)

\* No call of add_to_queue or _process_batch_queue is under way.
NoDrainRunning == \A a \in ActIds : acts[a] = NoAct

\* C29 (as stated): whenever no drain is running and the queue is not empty,
\* a drain timer is pending.
C29_NonEmptyQueueHasPendingDrain ==
    (NoDrainRunning /\ batch_queue # <<>>) => TimerPending

\* The batch whose send raised in the step of thread a, and the batches the
\* payloads can stand in after it: those of the queue and the one thread a
\* is sending.
RaisedBatch(a) == Head(acts[a].stack).batch
Sending(a) == {F.batch : F \in {G \in FramesOf(a) : G.at # "requeue"}}
Targets(a) == SeqToSet(batch_queue) \cup Sending(a)

\* The position of a batch: 0 when it is being sent, else its queue index.
PositionOf(a, c) ==
    IF c \in Sending(a) THEN 0
    ELSE CHOOSE k \in DOMAIN batch_queue : batch_queue[k] = c

\* The first payload of B the exception path has not re-added yet.
NextOf(a, B) ==
    LET rest == {F \in FramesOf(a) : F.batch.id = B.id /\ F.at = "requeue"}
    IN IF rest = {} THEN Len(B.payload) + 1 ELSE (CHOOSE F \in rest : TRUE).next

Slots(a, p) ==
    {x \in Targets(a) \X (1..MaxPayloads) :
        x[2] \in DOMAIN x[1].payload /\ x[1].payload[x[2]] = p}

SweepStep == clear_retries_timer.set /\ ~clear_retries_timer'.set

BelowRetries(b) == b.retries < config.retries

\* C31: a retry-cleanup sweep removes exactly the batches whose retries >=
\* config.retries; every other batch stays in the queue, unchanged and in the
\* same relative order.
C31_SweepRemovesExactlyExhausted ==
    [][SweepStep => batch_queue' = SelectSeq(batch_queue, BelowRetries)]_vars

\* A sweep has removed a batch and left another one in the queue.
C31_Witness ==
    /\ swept # {}
    /\ ~clear_retries_timer.set
    /\ \E k \in DOMAIN batch_queue : batch_queue[k].retries < config.retries

\* The payloads a step's persist evicted, the batches of the queue that held
\* them, and the size at which the eviction stops.
NewlyEvicted == evicted' \ evicted
EvictedBatches ==
    {b \in SeqToSet(batch_queue) : SeqToSet(b.payload) \cap NewlyEvicted # {}}
TargetSize == (config.maxStorageSize * 8) \div 10
SizeOf(b) == BatchLen + PayloadLen * Len(b.payload)

\* C32 (as stated): the batches a persist evicts are older than every batch
\* that stays, whatever their priority and whatever drains sorted the queue
\* before; the evicted payloads are neither in the queue nor in the blob
\* afterwards; and an enqueue that does not drain evicts no more than it
\* takes to bring the size to 80% of maxStorageSize.
C32_EvictsOldestFirst ==
    [][/\ \A b \in EvictedBatches : \A c \in SeqToSet(batch_queue') : b.id < c.id
       /\ (NewlyEvicted # {} /\ NoWriteInFlight') =>
             /\ NewlyEvicted \cap PayloadsOf(batch_queue') = {}
             /\ storage'.present
             /\ NewlyEvicted \cap PayloadsOf(storage'.blob) = {}
       /\ \A L \in Loops, p \in Payloads :
             (Appends(L, p) /\ acts'[<<L, "top">>].stack = <<>> /\ NewlyEvicted # {}) =>
                 /\ SerializedLen(batch_queue') <= TargetSize
                 /\ \E b \in EvictedBatches :
                       SerializedLen(batch_queue') + SizeOf(b) > TargetSize]_vars

\* initialize: the BatchRequest list built from the stored blob, each batch
\* with a payload list of its own.
parsed_queue(blob) ==
    [k \in DOMAIN blob |-> [id |-> blob[k].id, lid |-> blob[k].id,
                            payload |-> blob[k].payload,
                            retries |-> blob[k].retries,
                            priority |-> blob[k].priority]]

SameBatch(b, c) ==
    /\ b.id = c.id /\ b.payload = c.payload
    /\ b.retries = c.retries /\ b.priority = c.priority

\* C33: with storage enabled, once the queue was persisted and every
\* enqueue that began to persist has completed, the blob deserializes to the
\* in-memory queue: the same batches in the same order, with the same
\* payloads, retries and priority.
C33_BlobMatchesQueue ==
    (config.enableStorage /\ storage.present /\ NoWriteInFlight) =>
        /\ Len(parsed_queue(storage.blob)) = Len(batch_queue)
        /\ \A k \in DOMAIN batch_queue :
              SameBatch(parsed_queue(storage.blob)[k], batch_queue[k])

(***************************************************************************)
(* The client constructed over a blob a previous run left in storage,      *)
(* checked under RestartSpec.                                              *)
(***************************************************************************)
\* QueueDependencies.is_online: its body is "...", so it returns None.
is_online == FALSE

\* QueueManager.initialize: the queue read from the stored blob.
initialize(cfg, ad, st) ==
    IF cfg.enableStorage /\ st.present
    THEN parsed_queue(get_item(ad, st))
    ELSE <<>>

\* The payload a previous run left in storage.
StoredPayload == MaxPayloads

StoredBlobs ==
    {<<>>,
     <<[id |-> 1, payload |-> <<StoredPayload>>, retries |-> 0, priority |-> "normal"]>>}

RestartConfig ==
    [batchSize |-> 2, retries |-> 1, enableStorage |-> TRUE,
     maxStorageSize |-> MaxStorageSize]

\* After the restart: P1 normal, P2 high on the program's loop, and a flush.
RestartWorkload ==
    Workload(2, <<{"normal"}, {"high"}>>, [i \in 1..2 |-> {"main"}], MaxFlushes, 0)

\* The state after OlakaiClient.__init__: initialize has loaded the queue;
\* neither a drain nor a timer was started (is_online is falsy, and the
\* _process_batch_queue() it would call is a coroutine that is not awaited).
RestartQInit ==
    /\ config = RestartConfig /\ workload = RestartWorkload
    /\ storage_instance = "file"
    /\ \E blob \in StoredBlobs : storage = [present |-> TRUE, blob |-> blob]
    /\ batch_queue = initialize(config, storage_instance, storage)
    /\ batch_timer = TimerNone
    /\ clear_retries_timer = TimerNone
    /\ older_timer = "bt"
    /\ clear_raised = FALSE
    /\ acts = [a \in ActIds |-> NoAct]
    /\ next_id = 2
    /\ enqueued = 0
    /\ priority_of = [p \in Payloads |-> "none"]
    /\ delivered = {}
    /\ failed_sends = [p \in Payloads |-> 0]
    /\ swept = {}
    /\ evicted = {}
    /\ cleared = {}
    /\ cancelled = {}
    /\ failures = 0
    /\ flushes = 0
    /\ clears = 0
    /\ sent_order = <<>>
    /\ first_drain_enq = 0
    /\ raised_in = <<>>

RestartNext ==
    \/ \E L \in Loops, prio \in Priorities : EnqueueScan(L, prio)
    \/ \E L \in Loops : EnqueueApply(L)
    \/ \E a \in ActIds : PostFails(a)
    \/ \E a \in ActIds : SleepDone(a)
    \/ \E a \in ActIds : \E resp \in Responses(BodyLen(a)) : PostResponds(a, resp)
    \/ \E L \in Loops : DrainTimerFires(L)
    \/ \E L \in Loops : SweepTimerFires(L)
    \/ Flush

RestartInit == RestartQInit /\ WInit /\ XInit

RestartSpec == RestartInit /\ [][RestartNext]_vars

\* C34 (as stated): a non-empty stored blob is loaded into the queue at
\* construction and a drain of it has started before any enqueue or flush:
\* every loaded payload has been popped for a send.
C34_LoadedQueueDrainsAtOnce ==
    (enqueued = 0 /\ flushes = 0) =>
        \A k \in DOMAIN storage.blob :
            \A p \in SeqToSet(storage.blob[k].payload) :
                /\ p \in InQueue \cup InFlight \cup delivered
                /\ p \in InQueue => p \in SeqToSet(sent_order)

(***************************************************************************)
(* The backoff of the retry wrapper, checked under RetrySpec.              *)
(***************************************************************************)
\* The sleep after failed attempt k (from 0), in ms.
ExpectedDelay(k) == IF 1000 * (2 ^ k) < 30000 THEN 1000 * (2 ^ k) ELSE 30000

\* C35: the sleep after failed attempt k is min(1000 * 2^k, 30000) ms; there
\* is one sleep per failed attempt that is followed by another attempt and
\* none after the last one; with retries = 2 and every attempt failing the
\* sleeps are 1000 ms then 2000 ms.
C35_BackoffDelays ==
    /\ \A i \in DOMAIN retry_call.delays :
          retry_call.delays[i] = ExpectedDelay(i - 1)
    /\ retry_call.pc \in {"attempt", "sleep"} =>
          Len(retry_call.delays) = Len(retry_call.outcomes)
    /\ retry_call.pc \in {"returned", "raised"} =>
          Len(retry_call.delays) = Len(retry_call.outcomes) - 1
    /\ retry_call.raised = "RetryExhaustedError" =>
          Len(retry_call.delays) = retry_call.config.retries
    /\ (retry_call.raised = "RetryExhaustedError" /\ retry_call.config.retries = 2) =>
          retry_call.delays = <<1000, 2000>>

\* Six retries, every attempt failed: the last sleep is the ceiling.
C35_Witness ==
    /\ retry_call.raised = "RetryExhaustedError"
    /\ retry_call.config.retries = 6
    /\ retry_call.delays = <<1000, 2000, 4000, 8000, 16000, 30000>>

(***************************************************************************)
(* Claims about the threads inside the queue manager, checked under        *)
(* QueueSpec.                                                              *)
(***************************************************************************)
\* C36 (as stated): while a thread of control is inside add_to_queue,
\* between its scan of the queue and its return, every step of the queue
\* manager is a step of that call: no other enqueue, drain, sweep or
\* persist runs in between.
C36_OperationsNeverInterleave ==
    [][\A a \in ActIds : acts[a].pend # NoPend => acts'[a] # acts[a]]_vars

(***************************************************************************)
(* C37: a middleware registered while a wrapped call is in progress is not *)
(* applied to that call.  A registration that happens between the start of *)
(* a call and the end of its monitoring leaves what the call still has to  *)
(* do as it was: the arguments its before_call hooks will produce (the     *)
(* async wrapper applies them when the control call returns) and the       *)
(* payload each of its submitted monitoring tasks will hand to send_to_api.*)
(***************************************************************************)
CallInProgress == pc # "idle"

Registers == Len(middlewares') > Len(middlewares)

C37_RegistrationSkipsCallInProgress ==
    [][(CallInProgress /\ Registers) =>
          /\ (pc = "control" /\ wrapper = "async") =>
                apply_before_middleware(middlewares', <<>>)
                   = apply_before_middleware(middlewares, <<>>)
          /\ \A i \in DOMAIN background :
                run_task(middlewares', options, background[i])
                   = run_task(middlewares, options, background[i])]_vars

(***************************************************************************)
(* C38: cancelling the drain timer while a drain is in progress has no     *)
(* effect on that drain, the drain the cancelled timer itself started      *)
(* included: the batch being processed is still sent and reconciled.  No   *)
(* step ends a drain that is sending or backing off and leaves a payload   *)
(* of its batch neither accepted, nor reconciled, nor back in the queue.   *)
(***************************************************************************)
\* The payloads thread a's drain serialized into the request it is sending.
BatchInProgress(a) == BodyOf(Head(acts[a].stack))

\* The step ends thread a's drain and a payload it was sending was neither
\* accepted by the server, nor counted as a failed send and reconciled, nor
\* put back in the queue.
Abandons(a) ==
    /\ acts[a].stack # <<>>
    /\ Head(acts[a].stack).at \in {"post", "sleep"}
    /\ acts'[a].stack = <<>>
    /\ \E p \in BatchInProgress(a) :
          /\ p \notin delivered'
          /\ p \notin PayloadsOf(batch_queue')
          /\ failed_sends'[p] = failed_sends[p]

C38_CancelLeavesDrainInProgress ==
    [][\A a \in ActIds : ~Abandons(a)]_vars

(***************************************************************************)
(* The queue manager as the client sets it up.  OlakaiClient.__init__ (and *)
(* init_client) call init_queue_manager only under "if enableStorage", and *)
(* nothing else in the package calls it: the module's _queue_manager is a  *)
(* QueueManager when storage is enabled and stays None when it is not.     *)
(* The module-level add_to_queue, flush_queue and clear_queue go through   *)
(* get_queue_manager, which raises QueueNotInitializedError on None; in    *)
(* send_to_api the exception leaves the background task, where it is       *)
(* logged.                                                                 *)
(***************************************************************************)
get_queue_manager(cfg) == IF cfg.enableStorage THEN "QueueManager" ELSE None

Initialized == get_queue_manager(config) # None

\* send_to_api of a MonitorPayload with batching on: the module-level
\* add_to_queue, which reaches QueueManager.add_to_queue or raises.
SendToApi(L, prio) ==
    IF Initialized THEN EnqueueScan(L, prio)
    ELSE /\ enqueued < workload.n
         /\ prio \in workload.prios[enqueued + 1]
         /\ L \in workload.loops[enqueued + 1]
         /\ enqueued' = enqueued + 1
         /\ priority_of' = [priority_of EXCEPT ![enqueued + 1] = prio]
         /\ raised_in' = <<>>
         /\ UNCHANGED <<config, storage_instance, clear_raised, workload,
                        batch_queue, batch_timer, clear_retries_timer,
                        older_timer, storage, acts, next_id, delivered,
                        failed_sends, swept, evicted, cleared, cancelled,
                        failures, flushes, clears, sent_order,
                        first_drain_enq>>
         /\ UNCHANGED <<wvars, xvars>>

\* The program of PriorityWorkload run through the client, storage on or off.
ClientQInit == QInit /\ workload = PriorityWorkload

ClientNext ==
    \/ \E L \in Loops, prio \in Priorities : SendToApi(L, prio)
    \/ Initialized /\ \E L \in Loops : EnqueueApply(L)
    \/ Initialized /\ \E a \in ActIds : PostFails(a)
    \/ Initialized /\ \E a \in ActIds : SleepDone(a)
    \/ Initialized /\ \E a \in ActIds :
          \E resp \in Responses(BodyLen(a)) : PostResponds(a, resp)
    \/ Initialized /\ \E L \in Loops : DrainTimerFires(L)
    \/ Initialized /\ \E L \in Loops : SweepTimerFires(L)
    \/ Initialized /\ Flush

ClientInit == ClientQInit /\ WInit /\ XInit

ClientSpec == ClientInit /\ [][ClientNext]_vars

(***************************************************************************)
(* C39: with batching on and storage disabled, enqueue still places        *)
(* payloads in the in-memory queue and only persistence is skipped.  Every *)
(* payload handed to send_to_api is taken up by add_to_queue (its enqueue  *)
(* is in progress after the step), whether storage is enabled or not, and  *)
(* nothing is written to storage when it is disabled.                      *)
(***************************************************************************)
HandsOver(p) == enqueued' = enqueued + 1 /\ p = enqueued'

C39_StorageOffStillQueues ==
    [][/\ \A p \in Payloads :
             HandsOver(p) => \E a \in ActIds : acts'[a].pend.p = p
       /\ ~config.enableStorage => storage' = NoStorage]_vars

(***************************************************************************)
(* C40: at most one batch is in flight at any time.  Over all threads of   *)
(* control, at most one drain is inside its transport call (the POST or a  *)
(* backoff sleep of send_with_retry), whatever started the drains.         *)
(***************************************************************************)
Outstanding ==
    {x \in ActIds \X (1..(MaxPayloads + 1)) :
        /\ x[2] \in DOMAIN acts[x[1]].stack
        /\ acts[x[1]].stack[x[2]].at \in {"post", "sleep"}}

C40_OneBatchInFlight == Cardinality(Outstanding) <= 1

=========================================================================
